---------------------------- MODULE Spec2Model ----------------------------
(***************************************************************************)
(* HtmlToMarkdown.convert (js-packages/html-to-md/src/html-to-markdown.ts) *)
(* as a state machine.  One conversion call is: create the scanner, then   *)
(* one loop iteration per token the scanner yields, then the post-loop     *)
(* step; the fallback extractor is a second small loop.                    *)
(*                                                                         *)
(* Text is a sequence of characters; a character is a one-character        *)
(* string, except three characters written by name: SepChar stands for     *)
(* U+2063 INVISIBLE SEPARATOR, CombChar for a combining mark (U+0301) and  *)
(* BacktickChar for the backtick.                                          *)
(***************************************************************************)
EXTENDS Integers, Sequences, FiniteSets, TLC

(***************************************************************************)
(* Bounds of the model.                                                    *)
(***************************************************************************)
\* tokens per call in the general specification Spec
MaxTokens == 2
\* open elements below BODY the modelled scanner lets a document nest
MaxDepth == 3

(***************************************************************************)
(* Characters.                                                             *)
(***************************************************************************)
SepChar == "<U+2063>"
CombChar == "<U+0301>"
\* U+0060 GRAVE ACCENT, the backtick
BacktickChar == "<U+0060>"

\* html-to-markdown.ts:21
SEP == <<SepChar>>

\* what String.prototype.trim removes, among the characters of the model
WhiteSpace == {" ", "\t", "\n", "\r", "\f"}

\* the character class of escapeAsciiPunctuation's pattern (",-." is a range)
AsciiPunctuation ==
    {"!", "\"", "#", "$", "%", "&", "'", "(", ")", "*", "+", ",", "-", ".",
     "/", ":", ";", "<", "=", ">", "?", "@", "[", "\\", "]", "^", "_", BacktickChar,
     "{", "|", "}", "~"}

Letters ==
    {"a", "b", "c", "d", "e", "f", "g", "h", "i", "j", "k", "l", "m", "n",
     "o", "p", "q", "r", "s", "t", "u", "v", "w", "x", "y", "z",
     "A", "B", "C", "D", "E", "F", "G", "H", "I", "J", "K", "L", "M", "N",
     "O", "P", "Q", "R", "S", "T", "U", "V", "W", "X", "Y", "Z"}

Digits == {"0", "1", "2", "3", "4", "5", "6", "7", "8", "9"}

(***************************************************************************)
(* String helpers: the JavaScript string operations the converter uses.    *)
(***************************************************************************)
Max(a, b) == IF a >= b THEN a ELSE b

Min(a, b) == IF a <= b THEN a ELSE b

\* s.substring(i - 1): the characters of s from index i (1-based) on
From(s, i) == SubSeq(s, i, Len(s))

\* String.prototype.startsWith
StartsWith(s, p) == Len(s) >= Len(p) /\ SubSeq(s, 1, Len(p)) = p

\* String.prototype.endsWith
EndsWith(s, p) == Len(s) >= Len(p) /\ SubSeq(s, Len(s) - Len(p) + 1, Len(s)) = p

\* the strings ss[lo], ..., ss[hi] one after the other (the range is halved,
\* which keeps the evaluation shallow)
RECURSIVE JoinRange(_, _, _)
JoinRange(ss, lo, hi) ==
    IF lo > hi THEN <<>>
    ELSE IF lo = hi THEN ss[lo]
    ELSE LET mid == (lo + hi) \div 2
         IN JoinRange(ss, lo, mid) \o JoinRange(ss, mid + 1, hi)

\* Array.prototype.join("") of an array of strings
Join(ss) == JoinRange(ss, 1, Cardinality(DOMAIN ss))

\* String.prototype.repeat
Repeat(s, n) == Join([i \in 1..n |-> s])

\* length of the longest run of characters of set cs that starts at index i
RunLen(s, i, cs) ==
    Cardinality({k \in i..Len(s) : \A m \in i..k : s[m] \in cs})

\* String.prototype.trimStart
TrimStart(s) == From(s, 1 + RunLen(s, 1, WhiteSpace))

\* String.prototype.trimEnd
TrimEnd(s) ==
    LET n == Cardinality({k \in 1..Len(s) : \A m \in k..Len(s) : s[m] \in WhiteSpace})
    IN SubSeq(s, 1, Len(s) - n)

\* String.prototype.trim
Trim(s) == TrimEnd(TrimStart(s))

\* Array.prototype.includes
Includes(arr, x) == \E i \in 1..Len(arr) : arr[i] = x

\* s.replace(/[cs]+/g, r): every maximal run of characters of cs becomes r
ReplaceRuns(s, cs, r) ==
    Join([i \in 1..Len(s) |->
            IF s[i] \notin cs THEN <<s[i]>>
            ELSE IF i = 1 \/ s[i - 1] \notin cs THEN r
            ELSE <<>>])

\* decimal digits of a natural number, as a template literal prints them
RECURSIVE Decimal(_)
Decimal(n) ==
    LET d == <<"0", "1", "2", "3", "4", "5", "6", "7", "8", "9">>
    IN IF n < 10 THEN <<d[n + 1]>> ELSE Decimal(n \div 10) \o <<d[(n % 10) + 1]>>

(***************************************************************************)
(* The converter's pure helpers.                                           *)
(***************************************************************************)
\* html-to-markdown.ts:30-93
KNOWN_LANGUAGES ==
    {<<"a", "p", "l">>, <<"a", "s", "m">>,
     <<"a", "s", "s", "e", "m", "b", "l", "y">>, <<"b", "a", "s", "h">>,
     <<"c">>, <<"c", "#">>, <<"c", "+", "+">>,
     <<"c", "l", "o", "j", "u", "r", "e">>, <<"c", "o", "b", "o", "l">>,
     <<"c", "p", "p">>, <<"c", "s", "h", "a", "r", "p">>, <<"c", "s", "s">>,
     <<"d">>, <<"d", "a", "r", "t">>, <<"e", "l", "i", "x", "i", "r">>,
     <<"e", "l", "m">>, <<"e", "r", "l", "a", "n", "g">>, <<"f", "#">>,
     <<"f", "i", "s", "h">>, <<"f", "o", "r", "t", "r", "a", "n">>,
     <<"f", "s", "h", "a", "r", "p">>, <<"g", "o">>,
     <<"g", "r", "o", "o", "v", "y">>, <<"g", "u", "i", "l", "e">>,
     <<"h", "a", "s", "k", "e", "l", "l">>, <<"h", "t", "m", "l">>,
     <<"j", "a", "v", "a">>,
     <<"j", "a", "v", "a", "s", "c", "r", "i", "p", "t">>, <<"j", "s">>,
     <<"j", "u", "l", "i", "a">>, <<"k", "o", "t", "l", "i", "n">>,
     <<"l", "e", "s", "s">>, <<"l", "i", "s", "p">>, <<"l", "u", "a">>,
     <<"m", "a", "t", "l", "a", "b">>,
     <<"o", "b", "j", "e", "c", "t", "i", "v", "e", "c">>,
     <<"o", "b", "j", "e", "c", "t", "i", "v", "e", "-", "c">>,
     <<"o", "c", "a", "m", "l">>, <<"p", "e", "r", "l">>, <<"p", "h", "p">>,
     <<"p", "o", "w", "e", "r", "s", "h", "e", "l", "l">>,
     <<"p", "y", "t", "h", "o", "n">>, <<"p", "y", "t", "h", "o", "n", "2">>,
     <<"p", "y", "t", "h", "o", "n", "3">>, <<"r">>,
     <<"r", "a", "c", "k", "e", "t">>, <<"r", "a", "k", "u">>,
     <<"r", "u", "b", "y">>, <<"r", "u", "s", "t">>, <<"s", "a", "s", "s">>,
     <<"s", "c", "a", "l", "a">>, <<"s", "c", "h", "e", "m", "e">>,
     <<"s", "g", "m", "l">>, <<"s", "h">>, <<"s", "h", "e", "l", "l">>,
     <<"s", "q", "l">>, <<"s", "w", "i", "f", "t">>,
     <<"t", "y", "p", "e", "s", "c", "r", "i", "p", "t">>, <<"t", "s">>,
     <<"v", "b", "a">>, <<"x", "m", "l">>, <<"z", "s", "h">>}

\* s.replace(/\r\n|\r/g, "\n")
preprocessInputStream(html) ==
    Join([i \in 1..Len(html) |->
            IF html[i] = "\r" THEN <<"\n">>
            ELSE IF html[i] = "\n" /\ i > 1 /\ html[i - 1] = "\r" THEN <<>>
            ELSE <<html[i]>>])

\* an escape that leaves its text as it is
EscapesNothing(plaintext) == plaintext

\* plaintext.replace(/[!"#$%&'()*+,-./:;<=>?@[\\\]^_{|}~ and backtick]/g, "\\$&")
escapeAsciiPunctuation(plaintext) ==
    Join([i \in 1..Len(plaintext) |->
            IF plaintext[i] \in AsciiPunctuation
            THEN <<"\\", plaintext[i]>>
            ELSE <<plaintext[i]>>])

\* the value the flat olCounts array gives at an index it does not have
Undefined == "undefined"

\* the marker of a list item; "" for a list type that is neither "-" nor "decimal"
listMarker(listType, count) ==
    CASE listType = "-" -> <<(<<"*", "+", "-">>)[(count % 3) + 1]>>
      [] listType = "decimal" -> Decimal(Max(1, Min(count, 999999999))) \o <<".">>
      [] OTHER -> <<>>

\* the schemes /^(?:https?|mailto):\/\// accepts
AbsolutePrefixes ==
    {<<"h", "t", "t", "p", ":", "/", "/">>,
     <<"h", "t", "t", "p", "s", ":", "/", "/">>,
     <<"m", "a", "i", "l", "t", "o", ":", "/", "/">>}

\* a resolution that puts a separator between the base and the href
JoinsWithSeparator(href, baseUrl) ==
    IF ~ \E p \in AbsolutePrefixes : StartsWith(href, p)
    THEN LET base == IF baseUrl = <<>> THEN <<"/">> ELSE baseUrl
         IN IF EndsWith(base, <<"/">>) THEN base \o href ELSE base \o <<"/">> \o href
    ELSE href

toUrl(href, baseUrl) ==
    IF ~ \E p \in AbsolutePrefixes : StartsWith(href, p)
    THEN LET base == IF baseUrl = <<>> THEN <<"/">> ELSE baseUrl
         IN base \o href
    ELSE href

\* Grapheme_Cluster_Break = Control, CR or LF, among the characters of the model
GraphemeControl == {"\n", "\r", "\t", "\f", SepChar}

\* the number of grapheme clusters Intl.Segmenter (granularity grapheme) counts:
\* a combining mark joins the character before it, CR LF is one cluster
graphemeLength(str) ==
    Cardinality({i \in 1..Len(str) :
        \/ i = 1
        \/ /\ ~ (str[i - 1] = "\r" /\ str[i] = "\n")
           /\ ~ (str[i] = CombChar /\ str[i - 1] \notin GraphemeControl)})

(***************************************************************************)
(* Word segmentation: Intl.Segmenter with granularity word, the rules of   *)
(* UAX #29 for the characters of the model.                                *)
(***************************************************************************)
WordBreakClass(c) ==
    CASE c \in {"\n", "\r", "\f"} -> "Newline"
      [] c = " " -> "WSegSpace"
      [] c \in Letters -> "ALetter"
      [] c \in Digits -> "Numeric"
      [] c \in {".", "'"} -> "MidNumLetQ"
      [] c \in {",", ";"} -> "MidNum"
      [] c = "_" -> "ExtendNumLet"
      [] c \in {SepChar, CombChar} -> "Ignored"
      [] OTHER -> "Other"

\* WB4: the character that the run of Extend/Format characters ending at i extends
RECURSIVE PrevBase(_, _)
PrevBase(s, i) ==
    IF /\ WordBreakClass(s[i]) = "Ignored"
       /\ i > 1
       /\ WordBreakClass(s[i - 1]) # "Newline"
    THEN PrevBase(s, i - 1)
    ELSE i

\* WB4: the first index from i on that is no Extend/Format character (or Len + 1)
RECURSIVE NextBase(_, _)
NextBase(s, i) ==
    IF i <= Len(s) /\ WordBreakClass(s[i]) = "Ignored"
    THEN NextBase(s, i + 1)
    ELSE i

ClassAt(s, i) ==
    IF i < 1 \/ i > Len(s) THEN "None"
    ELSE LET c == WordBreakClass(s[i]) IN IF c = "Ignored" THEN "Other" ELSE c

\* whether a word boundary lies between s[i] and s[i + 1]
WordBreakAfter(s, i) ==
    LET a == WordBreakClass(s[i])
        b == WordBreakClass(s[i + 1])
        li == PrevBase(s, i)
        L == ClassAt(s, li)
        LL == IF li > 1 THEN ClassAt(s, PrevBase(s, li - 1)) ELSE "None"
        R == ClassAt(s, i + 1)
        RR == ClassAt(s, NextBase(s, i + 2))
    IN CASE s[i] = "\r" /\ s[i + 1] = "\n" -> FALSE                    \* WB3
         [] a = "Newline" \/ b = "Newline" -> TRUE                     \* WB3a, WB3b
         [] a = "WSegSpace" /\ b = "WSegSpace" -> FALSE                \* WB3d
         [] b = "Ignored" -> FALSE                                     \* WB4
         [] L = "ALetter" /\ R = "ALetter" -> FALSE                    \* WB5
         [] L = "ALetter" /\ R = "MidNumLetQ" /\ RR = "ALetter" -> FALSE \* WB6
         [] LL = "ALetter" /\ L = "MidNumLetQ" /\ R = "ALetter" -> FALSE \* WB7
         [] L = "Numeric" /\ R = "Numeric" -> FALSE                    \* WB8
         [] L = "ALetter" /\ R = "Numeric" -> FALSE                    \* WB9
         [] L = "Numeric" /\ R = "ALetter" -> FALSE                    \* WB10
         [] /\ LL = "Numeric" /\ L \in {"MidNum", "MidNumLetQ"}
            /\ R = "Numeric" -> FALSE                                  \* WB11
         [] /\ L = "Numeric" /\ R \in {"MidNum", "MidNumLetQ"}
            /\ RR = "Numeric" -> FALSE                                 \* WB12
         [] /\ L \in {"ALetter", "Numeric", "ExtendNumLet"}
            /\ R = "ExtendNumLet" -> FALSE                             \* WB13a
         [] /\ L = "ExtendNumLet"
            /\ R \in {"ALetter", "Numeric"} -> FALSE                   \* WB13b
         [] OTHER -> TRUE                                              \* WB999

\* the indices at which a segment ends, in order
SegmentEnds(s) ==
    Join([i \in 1..Len(s) |->
            IF i = Len(s) \/ WordBreakAfter(s, i) THEN <<i>> ELSE <<>>])

\* the segments of text, in order; filter(Boolean) drops nothing, as no segment
\* is empty
splitWords(text) ==
    LET ends == SegmentEnds(text)
    IN [k \in 1..Len(ends) |->
           SubSeq(text, (IF k = 1 THEN 1 ELSE ends[k - 1] + 1), ends[k])]

(***************************************************************************)
(* Tokens and attribute values, as the scanner's accessors report them.    *)
(***************************************************************************)
\* get_attribute's three kinds of answer: a string, boolean true, null
Str(v) == [kind |-> "string", val |-> v]

BoolTrue == [kind |-> "true", val |-> <<>>]

Null == [kind |-> "null", val |-> <<>>]

\* no attribute at all
NoAttrs == [a \in {} |-> Null]

TextToken(text) ==
    [name |-> "#text", closer |-> FALSE, text |-> text,
     attrs |-> NoAttrs, classes |-> <<>>]

CommentToken ==
    [name |-> "#comment", closer |-> FALSE, text |-> <<>>,
     attrs |-> NoAttrs, classes |-> <<>>]

Opener(name) ==
    [name |-> name, closer |-> FALSE, text |-> <<>>,
     attrs |-> NoAttrs, classes |-> <<>>]

OpenerWith(name, attrs, classes) ==
    [name |-> name, closer |-> FALSE, text |-> <<>>,
     attrs |-> attrs, classes |-> classes]

Closer(name) ==
    [name |-> name, closer |-> TRUE, text |-> <<>>,
     attrs |-> NoAttrs, classes |-> <<>>]

\* scanner.get_attribute(attr) at token tok
get_attribute(tok, attr) ==
    IF attr \in DOMAIN tok.attrs THEN tok.attrs[attr] ELSE Null

\* value || "" of an attribute value, then interpolated or passed to String()
OrEmpty(value) ==
    CASE value.kind = "null" -> <<>>
      [] value.kind = "true" -> <<"t", "r", "u", "e">>
      [] OTHER -> value.val

UpperCase == <<"A", "B", "C", "D", "E", "F", "G", "H", "I", "J", "K", "L", "M",
               "N", "O", "P", "Q", "R", "S", "T", "U", "V", "W", "X", "Y", "Z">>

LowerCase == <<"a", "b", "c", "d", "e", "f", "g", "h", "i", "j", "k", "l", "m",
               "n", "o", "p", "q", "r", "s", "t", "u", "v", "w", "x", "y", "z">>

\* String.prototype.toLowerCase
toLowerCase(s) ==
    [i \in 1..Len(s) |->
        IF \E k \in 1..26 : UpperCase[k] = s[i]
        THEN LowerCase[CHOOSE k \in 1..26 : UpperCase[k] = s[i]]
        ELSE s[i]]

(***************************************************************************)
(* State.                                                                  *)
(***************************************************************************)
VARIABLES
    pc,           \* where the call is: "start", "loop", "fallback", "done", "thrown"
    html,         \* argument: the HTML to convert
    baseUrlArg,   \* argument: the base URL the caller supplied ("" when none)
    width,        \* argument: the target width
    baseUrl,      \* the parameter variable baseUrl, which case BASE assigns
    md,           \* output buffer
    olCounts,     \* flat array: type and counter of every open list
    line,         \* line buffer
    lastAttrs,    \* attributes of the last remembered tag
    linkSwap,     \* the line buffer trapped while a link is processed
    emDepth,
    strongDepth,
    result,       \* what the call returned, once pc = "done"
    crumbs,       \* scanner: breadcrumbs after the last token, HTML and BODY first
    lastError,    \* scanner: get_last_error() is set
    stream,       \* history: the tokens the scanner has yielded in this call
    fbInput,      \* fallback: its argument
    fbPos,        \* fallback: tokens of the tag-level scan consumed so far
    fbOutput,     \* fallback: the array output
    via,          \* history: the path the call took to its return
    calls,        \* history: arguments, token stream and result of finished calls
    tool,         \* the fetch-and-convert tool handler around the call, if any
    ext           \* the browser extension's processHTML, if it runs

vars ==
    <<pc, html, baseUrlArg, width, baseUrl, md, olCounts, line, lastAttrs,
      linkSwap, emDepth, strongDepth, result, crumbs, lastError, stream,
      fbInput, fbPos, fbOutput, via, calls, tool, ext>>

\* the callers' state, which convert does not touch
hosts == <<tool, ext>>

\* no tool handler and no extension run around the call
NoTool ==
    [pc |-> "absent", url |-> <<>>, width |-> 0, outcome |-> "none", body |-> <<>>,
     converts |-> 0, text |-> <<>>]

\* the token types processHTML counts
TokenTypes == {"#tag", "#text", "#comment"}

NoExt ==
    [pc |-> "absent", processor |-> "none", exit |-> "none", freed |-> 0,
     logged |-> FALSE, posted |-> FALSE, tokenCounts |-> [t \in TokenTypes |-> 0],
     totalTokens |-> 0, scanned |-> 0]

NoHost == tool = NoTool /\ ext = NoExt

\* the locals of convert that live across loop iterations
locals == <<baseUrl, md, olCounts, line, lastAttrs, linkSwap, emDepth, strongDepth>>

args == <<html, baseUrlArg, width>>

fallbackVars == <<fbInput, fbPos, fbOutput>>

(***************************************************************************)
(* The token scanner, from its contract: tokens arrive in document order;  *)
(* the breadcrumbs at an opener end with the opened element, at a closer   *)
(* the closed element has left them; a closer closes the innermost open    *)
(* element; void elements have no closer.  A closer whose element is not   *)
(* open (an unbalanced closer) leaves the breadcrumbs as they are.         *)
(***************************************************************************)
RootCrumbs == <<"HTML", "BODY">>

VoidElements == {"BR", "HR", "IMG", "BASE"}

IsMarkup(tok) == tok.name \notin {"#text", "#comment"}

\* the open elements below BODY
OpenElements == SubSeq(crumbs, 3, Len(crumbs))

MatchedCloser(tok) ==
    /\ tok.closer
    /\ OpenElements # <<>>
    /\ crumbs[Len(crumbs)] = tok.name

UnbalancedCloser(tok) ==
    /\ tok.closer
    /\ ~ Includes(OpenElements, tok.name)

\* whether the scanner can yield tok next
ScannerYields(tok) ==
    \/ ~ IsMarkup(tok)
    \/ /\ IsMarkup(tok) /\ ~ tok.closer
       /\ tok.name \in VoidElements \/ Len(OpenElements) < MaxDepth
    \/ /\ tok.name \notin VoidElements
       /\ MatchedCloser(tok) \/ UnbalancedCloser(tok)

\* scanner.get_breadcrumbs() while tok is the current token
get_breadcrumbs(tok) ==
    CASE ~ IsMarkup(tok) -> crumbs
      [] ~ tok.closer -> Append(crumbs, tok.name)
      [] MatchedCloser(tok) -> SubSeq(crumbs, 1, Len(crumbs) - 1)
      [] OTHER -> crumbs

\* the breadcrumbs once the scanner has moved past tok
CrumbsAfter(tok) ==
    IF IsMarkup(tok) /\ ~ tok.closer /\ tok.name \in VoidElements
    THEN crumbs
    ELSE get_breadcrumbs(tok)

\* scanner.get_breadcrumbs().slice(2)
Slice2(bc) == SubSeq(bc, 3, Len(bc))

(***************************************************************************)
(* flushLine and append, as functions of the state they read.              *)
(***************************************************************************)
Headings == {"H1", "H2", "H3", "H4", "H5", "H6"}

\* olCounts[i] of the flat array, i counted from 0
OlAt(oc, i) == IF i + 1 \in 1..Len(oc) THEN oc[i + 1] ELSE Undefined

\* flushLine's locals before the walk over the breadcrumbs
NoContext ==
    [firstPrefix |-> <<>>, linePrefix |-> <<>>, inPre |-> FALSE,
     noNewlines |-> FALSE, listDepth |-> 0]

\* case "LI" of the walk
ContextLI(c, oc) ==
    IF c.listDepth = 0 THEN c
    ELSE LET ld == c.listDepth - 1
             listType == OlAt(oc, ld * 2)
             count == OlAt(oc, ld * 2 + 1)
             marker == listMarker(listType,
                                  IF listType = "-" THEN c.listDepth ELSE count)
             indent == Repeat(<<" ">>, graphemeLength(marker))
         IN [c EXCEPT
                !.firstPrefix =
                    IF c.listDepth * 2 # Len(oc)
                    THEN @ \o indent \o <<" ">>
                    ELSE @ \o marker \o <<" ">>,
                !.linePrefix = @ \o indent \o <<" ">>]

\* one step of the walk: the switch on a breadcrumb tag
ContextStep(c, tag, oc) ==
    CASE tag = "BLOCKQUOTE" ->
            [c EXCEPT !.firstPrefix = @ \o <<">", " ">>,
                      !.linePrefix = @ \o <<">", " ">>]
      [] tag = "CODE" ->
            IF c.inPre
            THEN [c EXCEPT !.firstPrefix = @ \o <<" ", " ", " ", " ">>,
                           !.linePrefix = @ \o <<" ", " ", " ", " ">>]
            ELSE c
      [] tag = "LI" -> ContextLI(c, oc)
      [] tag = "PRE" -> [c EXCEPT !.inPre = TRUE]
      [] tag \in Headings -> [c EXCEPT !.noNewlines = TRUE]
      [] tag \in {"OL", "UL"} -> [c EXCEPT !.listDepth = @ + 1]
      [] OTHER -> c

\* the walk over the breadcrumbs, in order
RECURSIVE BlockContext(_, _, _)
BlockContext(breadcrumbs, oc, c) ==
    IF breadcrumbs = <<>> THEN c
    ELSE BlockContext(Tail(breadcrumbs), oc, ContextStep(c, Head(breadcrumbs), oc))

\* /^[,.?!]+$/.test(word.trim())
IsPunctuation(word) ==
    LET w == Trim(word)
    IN w # <<>> /\ \A i \in 1..Len(w) : w[i] \in {",", ".", "?", "!"}

\* /^\n+$/.test(word)
IsNewlines(word) == word # <<>> /\ \A i \in 1..Len(word) : word[i] = "\n"

\* an iteration that never starts a new line
NeverWraps(st, words, i, firstPrefix, prefix, w) ==
    LET word == words[i]
    IN IF IsNewlines(word)
       THEN [out |-> st.out \o <<word[1]>> \o prefix,
             lineLength |-> graphemeLength(prefix)]
       ELSE [out |-> (IF i = 1 THEN st.out \o firstPrefix ELSE st.out) \o word,
             lineLength |-> st.lineLength + graphemeLength(word)]

\* one iteration of the wrapping loop, at word i: st holds md as out and
\* the running width as lineLength
WrapWord(st, words, i, firstPrefix, prefix, w) ==
    LET word == words[i]
        prefixLength == graphemeLength(prefix)
    IN IF IsNewlines(word)
       THEN [out |-> st.out \o <<word[1]>> \o prefix, lineLength |-> prefixLength]
       ELSE LET out1 == IF i = 1 THEN st.out \o firstPrefix ELSE st.out
                wordLength == graphemeLength(word)
            IN IF wordLength + st.lineLength > w /\ ~ IsPunctuation(word)
               THEN LET trimmedWord == TrimStart(word)
                    IN [out |-> out1 \o <<"\n">> \o prefix \o trimmedWord,
                        lineLength |-> prefixLength + graphemeLength(trimmedWord)]
               ELSE [out |-> out1 \o word,
                     lineLength |-> st.lineLength + wordLength]

\* the iterations at the words lo..hi, in order (the range is halved and the
\* first half is computed before the second starts, which keeps the
\* evaluation shallow; a width is never negative)
RECURSIVE WrapRange(_, _, _, _, _, _, _)
WrapRange(st, words, lo, hi, firstPrefix, prefix, w) ==
    IF lo > hi THEN st
    ELSE IF lo = hi THEN WrapWord(st, words, lo, firstPrefix, prefix, w)
    ELSE LET mid == (lo + hi) \div 2
             half == WrapRange(st, words, lo, mid, firstPrefix, prefix, w)
         IN IF half.lineLength >= 0
            THEN WrapRange(half, words, mid + 1, hi, firstPrefix, prefix, w)
            ELSE half

\* the wrapping loop from word i on; out is md, lineLength the running width
WrapWords(words, i, out, lineLength, firstPrefix, prefix, w) ==
    WrapRange([out |-> out, lineLength |-> lineLength], words, i,
              Cardinality(DOMAIN words), firstPrefix, prefix, w).out

\* a flush that writes the trimmed buffer and no newline behind it
UnterminatedFlush(bc, out, buffer, oc, w) == out \o Trim(buffer)

\* md after flushLine(), which also empties the line buffer; bc is what
\* get_breadcrumbs() reports
flushLine(bc, out, buffer, oc, w) ==
    LET c == BlockContext(Slice2(bc), oc, NoContext)
        text == IF ~ c.inPre THEN Trim(buffer) ELSE buffer
    IN IF c.noNewlines
       THEN out \o c.firstPrefix \o text \o <<"\n">>
       ELSE WrapWords(splitWords(text), 1, out, graphemeLength(c.firstPrefix),
                      c.firstPrefix, c.linePrefix, w) \o <<"\n">>

\* chunk.replace(/[ \t]+\n+/g, "\n")
\* a match is a run of spaces and tabs with the run of newlines after it: its
\* first newline stays, the rest of the match goes
DropSpaceBeforeNewlines(chunk) ==
    LET Blank(i) == chunk[i] \in {" ", "\t"}
        \* the run of blanks from i on ends at a newline
        BeforeNewline(i) ==
            \E j \in (i + 1)..Len(chunk) :
                chunk[j] = "\n" /\ \A k \in i..(j - 1) : Blank(k)
        \* the run of newlines up to i starts behind a blank
        AfterBlank(i) ==
            \E q \in 2..i :
                Blank(q - 1) /\ \A k \in q..i : chunk[k] = "\n"
    IN Join([i \in 1..Len(chunk) |->
               IF Blank(i) THEN (IF BeforeNewline(i) THEN <<>> ELSE <<chunk[i]>>)
               ELSE IF chunk[i] = "\n" /\ i > 1 /\ chunk[i - 1] = "\n" /\ AfterBlank(i)
                    THEN <<>>
               ELSE <<chunk[i]>>])

\* the line buffer after append(chunk)
append(bc, buffer, chunk) ==
    IF ~ Includes(bc, "PRE")
    THEN buffer \o ReplaceRuns(ReplaceRuns(DropSpaceBeforeNewlines(chunk),
                                           {" ", "\t"}, <<" ">>),
                               {"\f", "\n"}, <<"\n">>)
    ELSE buffer \o chunk

\* lastAttrs after remember(attributes) at token tok
remember(tok, attributes) ==
    LET kept == {a \in attributes : get_attribute(tok, a).kind # "null"}
    IN [a \in kept |->
            IF get_attribute(tok, a).kind = "true" THEN <<>>
            ELSE get_attribute(tok, a).val]

\* lastAttrs[attr] || "" (a missing entry and an empty one both give "")
LastAttr(attrs, attr) == IF attr \in DOMAIN attrs THEN attrs[attr] ELSE <<>>

(***************************************************************************)
(* The main loop: one action per case of the switch.  Each action is one   *)
(* iteration: the scanner yields tok, the case runs, the loop goes on.     *)
(***************************************************************************)
\* the scanner yields tok as the next token of the loop
Deliver(tok) == pc = "loop" /\ ScannerYields(tok)

\* what every iteration leaves behind apart from convert's locals
Advance(tok) ==
    /\ pc' = "loop"
    /\ crumbs' = CrumbsAfter(tok)
    /\ stream' = Append(stream, tok)
    /\ UNCHANGED <<args, result, lastError, fallbackVars, via, calls, hosts>>

\* a test that takes every text of white space for layout
IsAnyWhiteSpace(text) ==
    text # <<>> /\ \A i \in 1..Len(text) : text[i] \in WhiteSpace

\* /^[ ]*[\n]+$/.test(text)
IsLayoutWhitespace(text) ==
    LET n == RunLen(text, 1, {" "})
        k == RunLen(text, n + 1, {"\n"})
    IN k >= 1 /\ n + k = Len(text)

CaseText(tok) ==
    /\ Deliver(tok)
    /\ tok.name = "#text"
    /\ LET bc == get_breadcrumbs(tok)
       IN line' = IF IsLayoutWhitespace(tok.text) THEN line
                  ELSE IF ~ Includes(Slice2(bc), "PRE")
                       THEN append(bc, line, escapeAsciiPunctuation(tok.text))
                       ELSE append(bc, line, tok.text)
    /\ UNCHANGED <<baseUrl, md, olCounts, lastAttrs, linkSwap, emDepth, strongDepth>>
    /\ Advance(tok)

\* the text the A closer appends to the restored line buffer
LinkMarkup(attrs, base, linkLabel) ==
    LET url == toUrl(LastAttr(attrs, "href"), base)
        escapedUrl == escapeAsciiPunctuation(url)
        title == IF LastAttr(attrs, "title") # <<>>
                 THEN <<" ", "\"">> \o escapeAsciiPunctuation(LastAttr(attrs, "title"))
                      \o <<"\"">>
                 ELSE <<>>
    IN IF url = <<>>
       THEN linkLabel
       ELSE <<"[">> \o linkLabel \o <<"]", "(">> \o escapedUrl \o title \o <<")">>

\* an A closer that does not restore the trapped buffer
DropsCapture(tok) ==
    /\ Deliver(tok)
    /\ tok.name = "A"
    /\ LET bc == get_breadcrumbs(tok)
       IN IF tok.closer
          THEN /\ line' = append(bc, <<>>, LinkMarkup(lastAttrs, baseUrl, Trim(line)))
               /\ UNCHANGED <<lastAttrs, linkSwap>>
          ELSE /\ lastAttrs' = remember(tok, {"href", "title"})
               /\ linkSwap' = line
               /\ line' = <<>>
    /\ UNCHANGED <<baseUrl, md, olCounts, emDepth, strongDepth>>
    /\ Advance(tok)

CaseA(tok) ==
    /\ Deliver(tok)
    /\ tok.name = "A"
    /\ LET bc == get_breadcrumbs(tok)
       IN IF tok.closer
          THEN /\ line' = append(bc, linkSwap, LinkMarkup(lastAttrs, baseUrl, Trim(line)))
               /\ UNCHANGED <<lastAttrs, linkSwap>>
          ELSE /\ lastAttrs' = remember(tok, {"href", "title"})
               /\ linkSwap' = line
               /\ line' = <<>>
    /\ UNCHANGED <<baseUrl, md, olCounts, emDepth, strongDepth>>
    /\ Advance(tok)

\* the depth counter after an opener or a closer
DepthAfter(depth, isCloser) == depth + (IF isCloser THEN -1 ELSE 1)

\* every tag emits its marker, whatever the depth
AtEveryTag(depth, isCloser) == depth = depth /\ isCloser \in BOOLEAN

\* whether the tag at the new depth emits its marker
AtBoundary(depth, isCloser) ==
    (depth = 1 /\ ~ isCloser) \/ (depth = 0 /\ isCloser)

\* the marker with its flanks
Flanked(marker, isCloser) ==
    (IF isCloser THEN <<>> ELSE SEP) \o marker \o (IF isCloser THEN SEP ELSE <<>>)

CaseStrong(tok) ==
    /\ Deliver(tok)
    /\ tok.name \in {"B", "STRONG"}
    /\ strongDepth' = DepthAfter(strongDepth, tok.closer)
    /\ line' = IF AtBoundary(strongDepth', tok.closer)
               THEN append(get_breadcrumbs(tok), line, Flanked(<<"*", "*">>, tok.closer))
               ELSE line
    /\ UNCHANGED <<baseUrl, md, olCounts, lastAttrs, linkSwap, emDepth>>
    /\ Advance(tok)

CaseEm(tok) ==
    /\ Deliver(tok)
    /\ tok.name \in {"I", "EM"}
    /\ emDepth' = DepthAfter(emDepth, tok.closer)
    /\ line' = IF AtBoundary(emDepth', tok.closer)
               THEN append(get_breadcrumbs(tok), line, Flanked(<<"_">>, tok.closer))
               ELSE line
    /\ UNCHANGED <<baseUrl, md, olCounts, lastAttrs, linkSwap, strongDepth>>
    /\ Advance(tok)

\* case BASE without the test of baseUrl: the last BASE tag wins
LastBaseWins(tok, base) ==
    LET href == get_attribute(tok, "href")
    IN IF href.kind # "string" THEN base
       ELSE IF Trim(href.val) # <<>> THEN toUrl(Trim(href.val), <<>>)
       ELSE base

\* baseUrl after case BASE
BaseAfter(tok, base) ==
    LET href == get_attribute(tok, "href")
    IN IF base # <<>> THEN base
       ELSE IF href.kind # "string" THEN base
       ELSE IF Trim(href.val) # <<>> THEN toUrl(Trim(href.val), base)
       ELSE base

CaseBase(tok) ==
    /\ Deliver(tok)
    /\ tok.name = "BASE"
    /\ baseUrl' = BaseAfter(tok, baseUrl)
    /\ UNCHANGED <<md, olCounts, line, lastAttrs, linkSwap, emDepth, strongDepth>>
    /\ Advance(tok)

CaseBr(tok) ==
    /\ Deliver(tok)
    /\ tok.name = "BR"
    /\ LET bc == get_breadcrumbs(tok)
           line1 == IF Len(line) > 0 THEN append(bc, line, <<" ", " ">>) ELSE line
       IN md' = flushLine(bc, md, line1, olCounts, width)
    /\ line' = <<>>
    /\ UNCHANGED <<baseUrl, olCounts, lastAttrs, linkSwap, emDepth, strongDepth>>
    /\ Advance(tok)

Fence == <<BacktickChar, BacktickChar, BacktickChar>>

LanguagePrefix == <<"l", "a", "n", "g", "u", "a", "g", "e", "-">>

\* the loop over classList: the first class that decides, "" when none does
RECURSIVE ClassLanguage(_)
ClassLanguage(classList) ==
    IF classList = <<>> THEN <<>>
    ELSE LET lowerClassName == toLowerCase(Head(classList))
         IN IF StartsWith(lowerClassName, LanguagePrefix)
            THEN From(lowerClassName, Len(LanguagePrefix) + 1)
            ELSE IF lowerClassName \in KNOWN_LANGUAGES
                 THEN lowerClassName
                 ELSE ClassLanguage(Tail(classList))

\* a language that is kept as it was found
KeepsLanguage(lang) == lang

\* lang = lang.trim(); if (!lang || lang.endsWith(backtick)) lang = ""
CleanLanguage(lang) ==
    LET t == Trim(lang)
    IN IF t = <<>> \/ EndsWith(t, <<BacktickChar>>) THEN <<>> ELSE t

langAttrs ==
    <<"data-lang", "data-language", "data-codetag", "syntax",
      "data-programming-language", "type">>

\* the loop over langAttrs from index i on
RECURSIVE AttributeLanguage(_, _)
AttributeLanguage(tok, i) ==
    IF i > Len(langAttrs) THEN <<>>
    ELSE LET dataLang == get_attribute(tok, langAttrs[i])
         IN IF dataLang.kind = "string" /\ Trim(dataLang.val) \in KNOWN_LANGUAGES
            THEN Trim(dataLang.val)
            ELSE AttributeLanguage(tok, i + 1)

\* the language the CODE opener puts on the fence line
FenceLanguage(tok) ==
    LET fromClass == CleanLanguage(ClassLanguage(tok.classes))
    IN IF fromClass # <<>>
       THEN CleanLanguage(fromClass)
       ELSE CleanLanguage(AttributeLanguage(tok, 1))

CaseCode(tok) ==
    /\ Deliver(tok)
    /\ tok.name = "CODE"
    /\ LET bc == get_breadcrumbs(tok)
       IN IF Includes(Slice2(bc), "PRE")
          THEN LET md1 == flushLine(bc, md, line, olCounts, width)
                   line1 == append(bc, <<>>, Fence)
               IN /\ md' = IF tok.closer
                           THEN flushLine(bc, flushLine(bc, md1, line1, olCounts, width),
                                          <<>>, olCounts, width)
                           ELSE LET lang == FenceLanguage(tok)
                                    line2 == IF lang # <<>>
                                             THEN append(bc, line1, lang)
                                             ELSE line1
                                IN flushLine(bc, md1, line2, olCounts, width)
                  /\ line' = <<>>
          ELSE /\ line' = append(bc, line, <<BacktickChar>>)
               /\ md' = md
    /\ UNCHANGED <<baseUrl, olCounts, lastAttrs, linkSwap, emDepth, strongDepth>>
    /\ Advance(tok)

\* parseInt(tokenName.substring(1), 10) of a heading's tag name
HeadingLevel(name) ==
    CASE name = "H1" -> 1 [] name = "H2" -> 2 [] name = "H3" -> 3
      [] name = "H4" -> 4 [] name = "H5" -> 5 [] name = "H6" -> 6

CaseHeading(tok) ==
    /\ Deliver(tok)
    /\ tok.name \in Headings
    /\ LET bc == get_breadcrumbs(tok)
       IN IF tok.closer
          THEN /\ md' = flushLine(bc, md, Trim(line), olCounts, width)
               /\ line' = <<>>
          ELSE /\ md' = flushLine(bc, md, append(bc, line, <<"\n">>), olCounts, width)
               /\ line' = append(bc, <<>>,
                                 Repeat(<<"#">>, HeadingLevel(tok.name)) \o <<" ">>)
    /\ UNCHANGED <<baseUrl, olCounts, lastAttrs, linkSwap, emDepth, strongDepth>>
    /\ Advance(tok)

CaseHr(tok) ==
    /\ Deliver(tok)
    /\ tok.name = "HR"
    /\ LET bc == get_breadcrumbs(tok)
           md1 == flushLine(bc, md, line, olCounts, width)
       IN md' = flushLine(bc, md1, append(bc, <<>>, <<"*", "*", "*">>), olCounts, width)
    /\ line' = <<>>
    /\ UNCHANGED <<baseUrl, olCounts, lastAttrs, linkSwap, emDepth, strongDepth>>
    /\ Advance(tok)

\* the text case IMG appends
ImageMarkup(tok, base) ==
    LET alt == OrEmpty(get_attribute(tok, "alt"))
        src == OrEmpty(get_attribute(tok, "src"))
        url == toUrl(Trim(src), base)
        escapedUrl == escapeAsciiPunctuation(url)
        t == get_attribute(tok, "title")
        title == IF t.kind # "string" THEN <<>> ELSE t.val
        titleAttr == IF title # <<>>
                     THEN <<" ", "\"">> \o escapeAsciiPunctuation(title) \o <<"\"">>
                     ELSE <<>>
    IN <<"!", "[">> \o alt \o <<"]", "(">> \o escapedUrl \o titleAttr \o <<")">>

CaseImg(tok) ==
    /\ Deliver(tok)
    /\ tok.name = "IMG"
    /\ line' = append(get_breadcrumbs(tok), line, ImageMarkup(tok, baseUrl))
    /\ UNCHANGED <<baseUrl, md, olCounts, lastAttrs, linkSwap, emDepth, strongDepth>>
    /\ Advance(tok)

\* olCounts with its last entry, a counter, incremented
IncrementLast(oc) ==
    IF Len(oc) > 0 THEN [oc EXCEPT ![Len(oc)] = @ + 1] ELSE oc

CaseLi(tok) ==
    /\ Deliver(tok)
    /\ tok.name = "LI"
    /\ IF tok.closer
       THEN UNCHANGED <<md, line, olCounts>>
       ELSE /\ md' = flushLine(get_breadcrumbs(tok), md, line, olCounts, width)
            /\ line' = <<>>
            /\ olCounts' = IncrementLast(olCounts)
    /\ UNCHANGED <<baseUrl, lastAttrs, linkSwap, emDepth, strongDepth>>
    /\ Advance(tok)

\* Array.prototype.pop, twice
PopTwice(oc) == SubSeq(oc, 1, Max(0, Len(oc) - 2))

\* a closer that pops the counter and leaves the type
PopsOnce(oc, listType, isCloser) ==
    IF isCloser THEN SubSeq(oc, 1, Max(0, Len(oc) - 1)) ELSE oc \o <<listType, 0>>

\* an opener that pushes nothing
NeverPushes(oc, listType, isCloser) ==
    IF isCloser THEN PopTwice(oc) ELSE oc

\* olCounts after an OL or UL token
ListAfter(oc, listType, isCloser) ==
    IF isCloser THEN PopTwice(oc) ELSE oc \o <<listType, 0>>

CaseOl(tok) ==
    /\ Deliver(tok)
    /\ tok.name = "OL"
    /\ md' = flushLine(get_breadcrumbs(tok), md, line, olCounts, width)
    /\ line' = <<>>
    /\ olCounts' = ListAfter(olCounts, "decimal", tok.closer)
    /\ UNCHANGED <<baseUrl, lastAttrs, linkSwap, emDepth, strongDepth>>
    /\ Advance(tok)

CaseUl(tok) ==
    /\ Deliver(tok)
    /\ tok.name = "UL"
    /\ md' = flushLine(get_breadcrumbs(tok), md, line, olCounts, width)
    /\ line' = <<>>
    /\ olCounts' = ListAfter(olCounts, "-", tok.closer)
    /\ UNCHANGED <<baseUrl, lastAttrs, linkSwap, emDepth, strongDepth>>
    /\ Advance(tok)

CaseBlock(tok) ==
    /\ Deliver(tok)
    /\ tok.name \in {"BLOCKQUOTE", "P"}
    /\ md' = flushLine(get_breadcrumbs(tok), md, line, olCounts, width)
    /\ line' = <<>>
    /\ UNCHANGED <<baseUrl, olCounts, lastAttrs, linkSwap, emDepth, strongDepth>>
    /\ Advance(tok)

\* the token names the switch has a case for
HandledNames ==
    {"#text", "A", "B", "STRONG", "BASE", "BR", "CODE", "HR", "I", "EM", "IMG",
     "LI", "OL", "UL", "BLOCKQUOTE", "P"} \cup Headings

\* a default case that flushes the line
OtherFlushes(tok) ==
    /\ Deliver(tok)
    /\ tok.name \notin HandledNames
    /\ md' = flushLine(get_breadcrumbs(tok), md, line, olCounts, width)
    /\ line' = <<>>
    /\ UNCHANGED <<baseUrl, olCounts, lastAttrs, linkSwap, emDepth, strongDepth>>
    /\ Advance(tok)

\* a token no case matches: the switch does nothing
CaseOther(tok) ==
    /\ Deliver(tok)
    /\ tok.name \notin HandledNames
    /\ UNCHANGED locals
    /\ Advance(tok)

(***************************************************************************)
(* The fallback extractor.                                                 *)
(***************************************************************************)
\* the first index from i on at which s holds character c, 0 when there is none
RECURSIVE IndexFrom(_, _, _)
IndexFrom(s, i, c) ==
    IF i > Len(s) THEN 0 ELSE IF s[i] = c THEN i ELSE IndexFrom(s, i + 1, c)

\* html.replace(/<[^>]*>/g, "")
RECURSIVE StripTags(_)
StripTags(s) ==
    IF s = <<>> THEN <<>>
    ELSE LET j == IF s[1] = "<" THEN IndexFrom(s, 2, ">") ELSE 0
         IN IF j > 0
            THEN StripTags(From(s, j + 1))
            ELSE <<s[1]>> \o StripTags(Tail(s))

\* the tag-level scanner (WP_HTML_Tag_Processor), from its contract: a "<"
\* followed by a letter or "/" opens a tag that runs to the next ">"; a tag
\* never closed ends the scan; everything else is text
IsTagStart(s, i) ==
    /\ s[i] = "<"
    /\ i < Len(s)
    /\ s[i + 1] \in Letters \cup {"/"}

\* the index at which the text run that starts at index i ends
RECURSIVE TextEnd(_, _)
TextEnd(s, i) ==
    IF i >= Len(s) \/ IsTagStart(s, i + 1) THEN i ELSE TextEnd(s, i + 1)

\* the tokens of the tag-level scan of s from index i on
RECURSIVE TagScan(_, _)
TagScan(s, i) ==
    IF i > Len(s) THEN <<>>
    ELSE IF IsTagStart(s, i)
         THEN LET j == IndexFrom(s, i + 1, ">")
              IN IF j = 0 THEN <<>>
                 ELSE <<[name |-> "#tag", text |-> <<>>]>> \o TagScan(s, j + 1)
         ELSE LET e == TextEnd(s, i)
              IN <<[name |-> "#text", text |-> SubSeq(s, i, e)]>> \o TagScan(s, e + 1)

\* entering fallback(input): the try block starts with an empty output array
EnterFallback(input) ==
    /\ pc' = "fallback"
    /\ fbInput' = input
    /\ fbPos' = 0
    /\ fbOutput' = <<>>

\* output after one iteration of fallback's loop at token t
FallbackPush(output, t) ==
    IF t.name = "#text" /\ t.text # <<>> THEN Append(output, t.text) ELSE output

\* one iteration of fallback's loop
FallbackToken ==
    /\ pc = "fallback"
    /\ fbPos < Len(TagScan(fbInput, 1))
    /\ fbOutput' = FallbackPush(fbOutput, TagScan(fbInput, 1)[fbPos + 1])
    /\ fbPos' = fbPos + 1
    /\ UNCHANGED <<pc, fbInput, args, locals, result, crumbs, lastError, stream,
                   via, calls, hosts>>

\* what fallback returns when its try block completes
FallbackTier1(output) == Join(output)

\* a catch block that kept the output collected before the fault
KeepsOutputTier2(input, output) == Join(output) \o StripTags(input)

\* what fallback returns from its catch block
FallbackTier2(input, output) == StripTags(input)

\* next_token() reports the end of the scan: return output.join("")
FallbackReturn ==
    /\ pc = "fallback"
    /\ fbPos = Len(TagScan(fbInput, 1))
    /\ result' = FallbackTier1(fbOutput)
    /\ pc' = "done"
    /\ via' = Append(via, "tier1")
    /\ UNCHANGED <<fallbackVars, args, locals, crumbs, lastError, stream, calls, hosts>>

\* the tag processor faults, at construction (fbPos = 0) or at a token: catch
FallbackFault ==
    /\ pc = "fallback"
    /\ result' = FallbackTier2(fbInput, fbOutput)
    /\ pc' = "done"
    /\ via' = Append(via, "tier2")
    /\ UNCHANGED <<fallbackVars, args, locals, crumbs, lastError, stream, calls, hosts>>

(***************************************************************************)
(* The call: scanner construction, faults, and the post-loop step.         *)
(***************************************************************************)
\* html-to-markdown.ts:533
MinOutputLength == 50

\* html-to-markdown.ts:103
DefaultWidth == 80

NoResult == <<"<no result>">>

\* locals of which strongDepth outlives the call
StaleLocals ==
    [md |-> <<>>, olCounts |-> <<>>, line |-> <<>>, lastAttrs |-> NoAttrs,
     linkSwap |-> <<>>, emDepth |-> 0, strongDepth |-> strongDepth]

\* the values lines 113-135 give the locals
FreshLocals ==
    [md |-> <<>>, olCounts |-> <<>>, line |-> <<>>, lastAttrs |-> NoAttrs,
     linkSwap |-> <<>>, emDepth |-> 0, strongDepth |-> 0]

\* create_full_parser returned a scanner
CreateScanner ==
    /\ pc = "start"
    /\ pc' = "loop"
    /\ md' = FreshLocals.md
    /\ olCounts' = FreshLocals.olCounts
    /\ line' = FreshLocals.line
    /\ lastAttrs' = FreshLocals.lastAttrs
    /\ linkSwap' = FreshLocals.linkSwap
    /\ emDepth' = FreshLocals.emDepth
    /\ strongDepth' = FreshLocals.strongDepth
    /\ crumbs' = RootCrumbs
    /\ lastError' = FALSE
    /\ stream' = <<>>
    /\ UNCHANGED <<args, baseUrl, result, fallbackVars, via, calls, hosts>>

\* the input line 109 hands to fallback
NoScannerInput(h) == preprocessInputStream(h)

\* create_full_parser returned no scanner
NoScanner ==
    /\ pc = "start"
    /\ EnterFallback(NoScannerInput(html))
    /\ via' = <<"noScanner">>
    /\ UNCHANGED <<args, locals, result, crumbs, lastError, stream, calls, hosts>>

\* where an exception thrown inside convert ends: convert has no handler of
\* its own, the exception reaches the caller
Propagate(kind) ==
    /\ pc' = "thrown"
    /\ via' = <<kind>>
    /\ UNCHANGED <<args, locals, result, crumbs, lastError, stream, fallbackVars, calls, hosts>>

\* create_full_parser throws
ConstructionFault ==
    /\ pc = "start"
    /\ Propagate("constructionFault")

\* a scanner call throws during an iteration of the loop
TokenFault ==
    /\ pc = "loop"
    /\ Propagate("tokenFault")

\* a test that counts the text still held in the line buffer
CountsPendingText(err, out) == err /\ Len(out) + Len(line) < MinOutputLength

\* a test that also falls back at exactly the threshold
FallsBackAtThreshold(err, out) == err /\ Len(out) <= MinOutputLength

\* lastError && md.length < 50
FallsBack(err, out) == err /\ Len(out) < MinOutputLength

\* the input line 534 hands to fallback
ParseErrorInput(h) == h

\* next_token() returned false, with the error indicator as err.  A scan
\* that ends without an error has closed every element.
EndOfStream(err) ==
    /\ pc = "loop"
    /\ err \/ OpenElements = <<>>
    /\ lastError' = err
    /\ IF FallsBack(err, md)
       THEN /\ EnterFallback(ParseErrorInput(html))
            /\ via' = <<"parseError">>
            /\ UNCHANGED <<md, line, result>>
       ELSE /\ md' = flushLine(crumbs, md, line, olCounts, width)
            /\ line' = <<>>
            /\ result' = Trim(md')
            /\ pc' = "done"
            /\ via' = <<"converted">>
            /\ UNCHANGED fallbackVars
    /\ UNCHANGED <<args, baseUrl, olCounts, lastAttrs, linkSwap, emDepth,
                   strongDepth, crumbs, stream, calls, hosts>>

(***************************************************************************)
(* The inputs of the general specification.                                *)
(***************************************************************************)
\* a text of n letters, one word
LongWord(n) == [i \in 1..n |-> "a"]

BaseExample == <<"h", "t", "t", "p", "s", ":", "/", "/", "e", ".", "c", "o", "m">>

\* documents handed to convert: one with CR LF and a tag, one with an
\* unclosed tag
HtmlInputs ==
    {<<"x", "\r", "\n", "<", "b", ">", "y">>,
     <<"a", "<", "p">>}

BaseUrls == {<<>>, BaseExample}

TextTokens ==
    {TextToken(<<"L">>),
     TextToken(<<"a", ",", " ", " ", "b">>),
     TextToken(<<" ", "\n">>),
     TextToken(LongWord(MinOutputLength - 2)),
     TextToken(LongWord(MinOutputLength - 1))}

AnchorTokens ==
    {OpenerWith("A", ("href" :> Str(<<"/", "p">>)) @@ ("title" :> Str(<<"T">>)), <<>>),
     Opener("A"),
     Closer("A")}

PairedNames == {"B", "I", "PRE", "H1", "LI", "OL", "UL", "P", "DIV"}

PythonClass == <<"l", "a", "n", "g", "u", "a", "g", "e", "-", "p", "y", "t", "h", "o", "n">>

OtherTokens ==
    {OpenerWith("BASE", ("href" :> Str(<<"/", "d", "/">>)), <<>>),
     Opener("BR"),
     Opener("HR"),
     OpenerWith("IMG", ("src" :> Str(<<"i", ".", "p", "n", "g">>))
                       @@ ("alt" :> Str(<<"p", "i", "c">>)), <<>>),
     OpenerWith("CODE", NoAttrs, <<PythonClass>>),
     Closer("CODE"),
     CommentToken}

Tokens ==
    TextTokens \cup AnchorTokens \cup OtherTokens
    \cup {Opener(n) : n \in PairedNames} \cup {Closer(n) : n \in PairedNames}

\* the state before a call with the given arguments
StartOfCall(h, b, w) ==
    /\ pc = "start"
    /\ html = h
    /\ baseUrlArg = b
    /\ width = w
    /\ baseUrl = b
    /\ result = NoResult
    /\ crumbs = RootCrumbs
    /\ lastError = FALSE
    /\ stream = <<>>
    /\ fbInput = <<>>
    /\ fbPos = 0
    /\ fbOutput = <<>>
    /\ via = <<>>

\* no call of convert has run: its locals do not exist yet
BeforeFirstCall ==
    /\ md = <<>>
    /\ olCounts = <<>>
    /\ line = <<>>
    /\ lastAttrs = NoAttrs
    /\ linkSwap = <<>>
    /\ emDepth = 0
    /\ strongDepth = 0

Init ==
    /\ \E h \in HtmlInputs, b \in BaseUrls : StartOfCall(h, b, DefaultWidth)
    /\ BeforeFirstCall
    /\ calls = <<>>
    /\ NoHost

\* one iteration of the loop at token tok
Iteration(tok) ==
    \/ CaseText(tok)
    \/ CaseA(tok)
    \/ CaseStrong(tok)
    \/ CaseBase(tok)
    \/ CaseBr(tok)
    \/ CaseCode(tok)
    \/ CaseHeading(tok)
    \/ CaseHr(tok)
    \/ CaseEm(tok)
    \/ CaseImg(tok)
    \/ CaseLi(tok)
    \/ CaseOl(tok)
    \/ CaseUl(tok)
    \/ CaseBlock(tok)
    \/ CaseOther(tok)

Fallback == FallbackToken \/ FallbackReturn \/ FallbackFault

Next ==
    \/ CreateScanner
    \/ NoScanner
    \/ ConstructionFault
    \/ \E tok \in Tokens : Len(stream) < MaxTokens /\ Iteration(tok)
    \/ TokenFault
    \/ \E err \in BOOLEAN : EndOfStream(err)
    \/ Fallback

Spec == Init /\ [][Next]_vars

(***************************************************************************)
(* fallback called on its own, on every short document.                    *)
(***************************************************************************)
\* longest document handed to fallback
MaxHtmlLen == 4

HtmlChars == {"a", "<", ">", "/", "\r"}

\* every text of at most n characters of cs
TextsUpTo(cs, n) == UNION {[1..k -> cs] : k \in 0..n}

InitFallback ==
    /\ \E h \in TextsUpTo(HtmlChars, MaxHtmlLen) : html = h /\ fbInput = h
    /\ pc = "fallback"
    /\ baseUrlArg = <<>>
    /\ width = DefaultWidth
    /\ baseUrl = <<>>
    /\ result = NoResult
    /\ crumbs = RootCrumbs
    /\ lastError = FALSE
    /\ stream = <<>>
    /\ fbPos = 0
    /\ fbOutput = <<>>
    /\ via = <<>>
    /\ BeforeFirstCall
    /\ calls = <<>>
    /\ NoHost

SpecFallback == InitFallback /\ [][Fallback]_vars

(***************************************************************************)
(* Error handling of convert and fallback.                                 *)
(***************************************************************************)
\* C1: convert never raises: whatever the scanner does (no scanner, a fault at
\* construction or at a token, the error indicator at the end of the stream),
\* no exception reaches the caller of convert.
C1_ConvertNeverRaises == pc # "thrown"

\* the texts of the text tokens of a scan, concatenated in document order
RECURSIVE TextContent(_)
TextContent(tokens) ==
    IF tokens = <<>> THEN <<>>
    ELSE (IF Head(tokens).name = "#text" THEN Head(tokens).text ELSE <<>>)
         \o TextContent(Tail(tokens))

\* position p of s lies in a '<'...'>' span: a '<' at or before p with no '>'
\* from it up to p, and a '>' at or after p
InSpan(s, p) ==
    /\ \E i \in 1..p : s[i] = "<" /\ \A k \in i..(p - 1) : s[k] # ">"
    /\ \E j \in p..Len(s) : s[j] = ">"

\* s without the positions that lie in a span
RECURSIVE WithoutSpans(_, _)
WithoutSpans(s, p) ==
    IF p > Len(s) THEN <<>>
    ELSE (IF InSpan(s, p) THEN <<>> ELSE <<s[p]>>) \o WithoutSpans(s, p + 1)

\* C2: fallback never raises and always returns a string: when its scan
\* completes the result is the concatenated content of the text tokens of the
\* scan of its input and nothing else, and when the scan faults, at
\* construction or at any token, the result is the input with every '<'...'>'
\* span removed.
C2_FallbackTiers ==
    /\ pc # "thrown"
    /\ pc = "done" =>
          /\ result # NoResult
          /\ via \in {<<"tier1">>, <<"tier2">>}
          /\ via = <<"tier1">> => result = TextContent(TagScan(fbInput, 1))
          /\ via = <<"tier2">> => result = WithoutSpans(fbInput, 1)

\* a scan that faulted after it had collected text returned the stripped
\* input, which keeps the '>' that lies outside every span
C2_Witness ==
    /\ pc = "done"
    /\ via = <<"tier2">>
    /\ fbOutput = << <<">">> >>
    /\ fbInput = <<">", "<", "a", ">">>
    /\ result = <<">">>

\* C3: after the loop, an error with fewer than 50 characters of accumulated
\* output discards the output and hands the original, unpreprocessed input to
\* fallback, whose result is returned; in every other case the line buffer is
\* flushed and the trimmed accumulator is returned, error or not.
C3_PostLoop ==
    /\ [][pc = "loop" /\ pc' \in {"fallback", "done"} =>
            IF lastError' /\ Len(md) < MinOutputLength
            THEN /\ pc' = "fallback"
                 /\ fbInput' = html
                 /\ fbOutput' = <<>>
                 /\ result' = NoResult
            ELSE /\ pc' = "done"
                 /\ md' = flushLine(crumbs, md, line, olCounts, width)
                 /\ result' = Trim(md')]_vars
    /\ [](pc = "done" /\ Head(via) = "parseError" =>
            result \in {TextContent(TagScan(html, 1)), WithoutSpans(html, 1)})

\* an error at the end of a stream that had produced exactly 50 characters:
\* the converted Markdown is returned
C3_Witness ==
    /\ pc = "done"
    /\ lastError
    /\ via = <<"converted">>
    /\ stream = <<TextToken(LongWord(MinOutputLength - 1)), Opener("P")>>
    /\ result = LongWord(MinOutputLength - 1)

(***************************************************************************)
(* Several calls of convert, one after the other.  The scanner is a        *)
(* function of the document: a document converted before yields the token  *)
(* stream and the error indicator it yielded then.                         *)
(***************************************************************************)
\* calls of convert in one behaviour
MaxCalls == 3

\* tokens of one call
MaxCallTokens == 3

CallTokens == {Opener("B"), Closer("B"), TextToken(<<"L">>)}

\* the documents the caller converts
CallDocs == {<<"a">>, <<"b">>}

InitCalls ==
    /\ \E h \in CallDocs : StartOfCall(h, <<>>, DefaultWidth)
    /\ BeforeFirstCall
    /\ calls = <<>>
    /\ NoHost

\* the call that has just returned
ThisCall ==
    [html |-> html, baseUrl |-> baseUrlArg, width |-> width, stream |-> stream,
     lastError |-> lastError, result |-> result]

IsPrefix(s, t) == Len(s) <= Len(t) /\ SubSeq(t, 1, Len(s)) = s

\* st is a prefix of what the scanner yielded for this document before
Replays(st) ==
    \A i \in 1..Len(calls) : calls[i].html = html => IsPrefix(st, calls[i].stream)

\* the scanner ends the stream with the error indicator err as it did before
ReplaysEnd(err) ==
    \A i \in 1..Len(calls) :
        calls[i].html = html => stream = calls[i].stream /\ err = calls[i].lastError

\* the caller calls convert again
Call ==
    /\ pc = "done"
    /\ Len(calls) < MaxCalls - 1
    /\ calls' = Append(calls, ThisCall)
    /\ UNCHANGED hosts
    /\ \E h \in CallDocs : html' = h
    /\ baseUrl' = baseUrlArg
    /\ pc' = "start"
    /\ result' = NoResult
    /\ via' = <<>>
    /\ UNCHANGED <<baseUrlArg, width, md, olCounts, line, lastAttrs, linkSwap, emDepth,
                   strongDepth, crumbs, lastError, stream, fallbackVars>>

CallIteration ==
    \E tok \in CallTokens :
        /\ Len(stream) < MaxCallTokens
        /\ Replays(Append(stream, tok))
        /\ (CaseText(tok) \/ CaseStrong(tok))

CallEnd == \E err \in BOOLEAN : ReplaysEnd(err) /\ EndOfStream(err)

NextCalls ==
    \/ CreateScanner
    \/ CallIteration
    \/ CallEnd
    \/ FallbackToken
    \/ FallbackReturn
    \/ Call

SpecCalls == InitCalls /\ [][NextCalls]_vars

\* the calls that have returned
Returned == calls \o (IF pc = "done" THEN <<ThisCall>> ELSE <<>>)

\* C4: convert is deterministic and keeps nothing between calls: every call
\* enters its loop with empty output, line buffer, list stack, remembered
\* attributes and link slot, zero depth counters and the base URL it was
\* given, and two calls with the same html, baseUrl and width return the same
\* string whatever calls ran before or between them.
C4_Deterministic ==
    /\ pc = "loop" /\ stream = <<>> =>
          /\ md = <<>> /\ line = <<>> /\ olCounts = <<>>
          /\ lastAttrs = NoAttrs /\ linkSwap = <<>>
          /\ emDepth = 0 /\ strongDepth = 0
          /\ baseUrl = baseUrlArg
    /\ \A i, j \in 1..Len(Returned) :
          /\ Returned[i].html = Returned[j].html
          /\ Returned[i].baseUrl = Returned[j].baseUrl
          /\ Returned[i].width = Returned[j].width
          => Returned[i].result = Returned[j].result

\* the same document converted a second time after a call that ended in an
\* error with B still open
C4_Witness ==
    /\ pc = "done"
    /\ Len(calls) = 2
    /\ calls[1].html = html /\ calls[1].baseUrl = baseUrlArg
    /\ calls[2].html # html
    /\ calls[2].stream = <<Opener("B")>>
    /\ stream = <<Opener("B"), TextToken(<<"L">>), Closer("B")>>
    /\ result = SEP \o <<"*", "*", "L", "*", "*">> \o SEP

(***************************************************************************)
(* Lists: documents of OL, UL, LI and text.                                *)
(***************************************************************************)
\* tokens of a list document
MaxListTokens == 8

ItemLetters == <<"a", "b", "c", "d", "e", "f", "g", "h", "i", "j">>

\* the text of the k-th text node of a list document
ItemText(k) == <<ItemLetters[((k - 1) % Len(ItemLetters)) + 1]>>

\* text tokens among the tokens of st
TextCount(st) == Cardinality({i \in 1..Len(st) : st[i].name = "#text"})

\* the tokens that may follow st in a well-nested list document: a list tag,
\* or the next text node unless st ends with a text node
ListTokens(st) ==
    {Opener("OL"), Closer("OL"), Opener("UL"), Closer("UL"), Opener("LI"), Closer("LI")}
    \cup (IF st # <<>> /\ st[Len(st)].name = "#text" THEN {}
          ELSE {TextToken(ItemText(TextCount(st) + 1))})

InitList ==
    /\ StartOfCall(<<>>, <<>>, DefaultWidth)
    /\ BeforeFirstCall
    /\ calls = <<>>
    /\ NoHost

ListIteration ==
    \E tok \in ListTokens(stream) :
        /\ Len(stream) < MaxListTokens
        /\ tok.closer => MatchedCloser(tok)
        /\ (CaseText(tok) \/ CaseLi(tok) \/ CaseOl(tok) \/ CaseUl(tok))

NextList ==
    \/ CreateScanner
    \/ ListIteration
    \/ EndOfStream(FALSE)

SpecList == InitList /\ [][NextList]_vars

\* the tokens of a list of n one-text items, the k-th text being ItemText(from + k)
RECURSIVE ListItems(_, _)
ListItems(n, from) ==
    IF n = 0 THEN <<>>
    ELSE <<Opener("LI"), TextToken(ItemText(from + 1)), Closer("LI")>>
         \o ListItems(n - 1, from + 1)

OrderedList(n) == <<Opener("OL")>> \o ListItems(n, 0) \o <<Closer("OL")>>

\* lines k. text for the items from k to n, one per line
RECURSIVE NumberedLines(_, _)
NumberedLines(k, n) ==
    IF k > n THEN <<>>
    ELSE Decimal(k) \o <<".", " ">> \o ItemText(k)
         \o (IF k < n THEN <<"\n">> ELSE <<>>) \o NumberedLines(k + 1, n)

\* C5: an ordered list of n items is emitted as n lines, the k-th starting
\* with the marker k. followed by the item's text, the last item included.
C5_OrderedItemsNumbered ==
    \A n \in 1..MaxListTokens :
        pc = "done" /\ stream = OrderedList(n) => result = NumberedLines(1, n)

\* k one-item unordered lists, siblings at the top level
RECURSIVE SiblingLists(_, _)
SiblingLists(k, from) ==
    IF k = 0 THEN <<>>
    ELSE <<Opener("UL")>> \o ListItems(1, from) \o <<Closer("UL")>>
         \o SiblingLists(k - 1, from + 1)

Rotation == <<"*", "+", "-">>

\* the item of the i-th sibling list on a line under the marker of rotation
\* place i
ItemLine(i) == <<Rotation[((i - 1) % 3) + 1], " ">> \o ItemText(i)

\* C6: the marker of an unordered list is chosen by how many sibling
\* unordered lists came before it, modulo 3: the items of three sibling
\* top-level one-item lists are emitted under the markers *, + and -, so the
\* output ends with the line of the k-th item once the k-th list is closed.
C6_MarkerBySiblingCount ==
    \A k \in 1..3 :
        pc = "loop" /\ stream = SiblingLists(k, 0) =>
            EndsWith(md, ItemLine(k) \o <<"\n">>)

(***************************************************************************)
(* Inline formatting: documents of B, STRONG, I and text, closers without  *)
(* an opener included.                                                     *)
(***************************************************************************)
\* tokens of an inline document
MaxInlineTokens == 7

InlineLetters == <<"x", "y", "z", "u", "v", "w">>

\* the text of the k-th text node of an inline document
InlineText(k) == <<InlineLetters[((k - 1) % Len(InlineLetters)) + 1]>>

\* the tokens that may follow st: a formatting tag, or the next text node
\* unless st ends with a text node
InlineTokens(st) ==
    {Opener("B"), Closer("B"), Opener("STRONG"), Closer("STRONG"),
     Opener("I"), Closer("I")}
    \cup (IF st # <<>> /\ st[Len(st)].name = "#text" THEN {}
          ELSE {TextToken(InlineText(TextCount(st) + 1))})

InlineIteration ==
    \E tok \in InlineTokens(stream) :
        /\ Len(stream) < MaxInlineTokens
        /\ (CaseText(tok) \/ CaseStrong(tok) \/ CaseEm(tok))

NextInline ==
    \/ CreateScanner
    \/ InlineIteration
    \/ EndOfStream(FALSE)

SpecInline == InitList /\ [][NextInline]_vars

IsStrongTag(tok) == tok.name \in {"B", "STRONG"}

\* strong openers less strong closers among the first i tokens of st
StrongBalance(st, i) ==
    Cardinality({k \in 1..i : IsStrongTag(st[k]) /\ ~ st[k].closer})
    - Cardinality({k \in 1..i : IsStrongTag(st[k]) /\ st[k].closer})

\* st is one balanced nest of B and STRONG tags around text: it opens with
\* the outermost opener and ends with the closer that matches it
BalancedStrong(st) ==
    /\ Len(st) >= 2
    /\ \A k \in 1..Len(st) : IsStrongTag(st[k]) \/ st[k].name = "#text"
    /\ \A k \in 1..(Len(st) - 1) : StrongBalance(st, k) >= 1
    /\ StrongBalance(st, Len(st)) = 0

\* the texts of the text tokens of st, in order
RECURSIVE StreamText(_)
StreamText(st) ==
    IF st = <<>> THEN <<>>
    ELSE (IF Head(st).name = "#text" THEN Head(st).text ELSE <<>>)
         \o StreamText(Tail(st))

\* B and STRONG elements open after the tokens of st, a closer without an
\* opener closing nothing
RECURSIVE OpenStrong(_)
OpenStrong(st) ==
    IF st = <<>> THEN 0
    ELSE LET before == OpenStrong(SubSeq(st, 1, Len(st) - 1))
             last == st[Len(st)]
         IN IF ~ IsStrongTag(last) THEN before
            ELSE IF last.closer THEN Max(0, before - 1) ELSE before + 1

\* C7: nested strong tags collapse to one marker pair: after any balanced
\* nest of B and STRONG openers and closers around text that starts where no
\* strong element is open, the line buffer ends with one opening ** and one
\* closing ** around the text of the nest.
C7_OneStrongPair ==
    pc = "loop" =>
        \A i \in 1..Len(stream) :
            LET nest == SubSeq(stream, i, Len(stream))
            IN OpenStrong(SubSeq(stream, 1, i - 1)) = 0 /\ BalancedStrong(nest) =>
                  EndsWith(line, SEP \o <<"*", "*">> \o StreamText(nest)
                                 \o <<"*", "*">> \o SEP)

\* C8: the strong and emphasis depth counters are never negative: a closer
\* that arrives at depth 0 leaves the counter at 0.
C8_DepthsNeverNegative == strongDepth >= 0 /\ emDepth >= 0

(***************************************************************************)
(* Links: documents of A, BASE and text.                                   *)
(***************************************************************************)
\* tokens of a link document
MaxLinkTokens == 4

RelativeHref == <<"/", "p">>

TitledAnchor ==
    OpenerWith("A", ("href" :> Str(RelativeHref)) @@ ("title" :> Str(<<"T">>)), <<>>)

UntitledAnchor == OpenerWith("A", "href" :> Str(RelativeHref), <<>>)

EmptyHrefAnchor == OpenerWith("A", "href" :> Str(<<>>), <<>>)

LabelToken == TextToken(<<"L">>)

LinkTokens ==
    {TitledAnchor, UntitledAnchor, EmptyHrefAnchor, Opener("A"), Closer("A"),
     LabelToken, OpenerWith("BASE", "href" :> Str(<<"/", "d", "/">>), <<>>)}

InitLink ==
    /\ \E b \in BaseUrls : StartOfCall(<<>>, b, DefaultWidth)
    /\ BeforeFirstCall
    /\ calls = <<>>
    /\ NoHost

LinkIteration ==
    \E tok \in LinkTokens :
        /\ Len(stream) < MaxLinkTokens
        /\ (CaseText(tok) \/ CaseA(tok) \/ CaseBase(tok))

NextLink ==
    \/ CreateScanner
    \/ LinkIteration
    \/ EndOfStream(FALSE)

SpecLink == InitLink /\ [][NextLink]_vars

\* the stream ends with the element <a ...>L</a> opened by anchor
EndsWithLink(anchor) ==
    /\ pc = "loop"
    /\ Len(stream) >= 3
    /\ SubSeq(stream, Len(stream) - 2, Len(stream)) = <<anchor, LabelToken, Closer("A")>>

\* [L](url "T") for the titled anchor, [L](url) for the untitled one
LinkText(url, titled) ==
    <<"[", "L", "]", "(">> \o url
    \o (IF titled THEN <<" ", "\"", "T", "\"">> ELSE <<>>) \o <<")">>

\* every ASCII punctuation character of s behind a backslash
Backslashed(s) ==
    LET Piece(i) == IF s[i] \in AsciiPunctuation THEN <<"\\", s[i]>> ELSE <<s[i]>>
        F[i \in 0..Len(s)] == IF i = 0 THEN <<>> ELSE F[i - 1] \o Piece(i)
    IN F[Len(s)]

\* C9 as stated: <a href="/p" title="T">L</a> with the base https://e.com is
\* appended as [L](https://e.com/p "T"), the URL text exactly as resolved,
\* and without the title clause when the anchor has no title.
C9_LinkAsResolved ==
    \A titled \in BOOLEAN :
        /\ baseUrlArg = BaseExample
        /\ EndsWithLink(IF titled THEN TitledAnchor ELSE UntitledAnchor)
        => EndsWith(line, LinkText(BaseExample \o RelativeHref, titled))

\* C9 amended: the URL text is the resolved URL with every ASCII punctuation
\* character behind a backslash: <a href="/p" title="T">L</a> with the base
\* https://e.com is appended as [L](https\:\/\/e\.com\/p "T"), and the title
\* clause is there only when the anchor has a title.
C9_LinkEscaped ==
    /\ \A titled \in BOOLEAN :
          /\ baseUrlArg = BaseExample
          /\ EndsWithLink(IF titled THEN TitledAnchor ELSE UntitledAnchor)
          => EndsWith(line, LinkText(Backslashed(BaseExample \o RelativeHref), titled))
    /\ /\ baseUrlArg = BaseExample
       /\ EndsWithLink(TitledAnchor)
       /\ Len(stream) = 3
       => line = <<"[", "L", "]", "(", "h", "t", "t", "p", "s", "\\", ":", "\\", "/",
                   "\\", "/", "e", "\\", ".", "c", "o", "m", "\\", "/", "p", " ",
                   "\"", "T", "\"", ")">>

\* <a href="/p" title="T">L</a> with the base https://e.com has been converted
C9_Witness ==
    /\ baseUrlArg = BaseExample
    /\ EndsWithLink(TitledAnchor)
    /\ Len(stream) = 3
    /\ Includes(line, "\\")

\* C10: the closer of an anchor whose href is empty or absent appends the
\* label alone to the restored buffer, without brackets, parentheses or URL,
\* whatever the base URL.
C10_LabelAlone ==
    \A anchor \in {EmptyHrefAnchor, Opener("A")} :
        EndsWithLink(anchor) =>
            /\ EndsWith(line, <<"L">>)
            /\ ~ \E c \in {"[", "]", "(", ")"} : Includes(line, c)


(***************************************************************************)
(* URL resolution: one link per document, its href drawn from absolute and *)
(* relative forms, under each base URL.                                    *)
(***************************************************************************)
MaxUrlTokens == 3

\* a host-relative base, without a trailing slash
BareBase == <<"b">>

UrlBases == {<<>>, BaseExample, BareBase}

UrlHrefs ==
    {<<"h", "t", "t", "p", ":", "/", "/", "h">>,
     <<"h", "t", "t", "p", "s", ":", "/", "/", "h">>,
     <<"m", "a", "i", "l", "t", "o", ":", "/", "/", "m">>,
     <<"a", "/", "b">>,
     <<"H", "T", "T", "P", ":", "/", "/", "h">>,
     <<"f", "t", "p", ":", "/", "/", "f">>,
     <<"x", "h", "t", "t", "p", ":", "/", "/", "h">>,
     <<".", ".", "/", "c">>}

AnchorTo(href) == OpenerWith("A", "href" :> Str(href), <<>>)

UrlTokens == {AnchorTo(h) : h \in UrlHrefs} \cup {LabelToken, Closer("A")}

InitUrl ==
    /\ \E b \in UrlBases : StartOfCall(<<>>, b, DefaultWidth)
    /\ BeforeFirstCall
    /\ calls = <<>>
    /\ NoHost

UrlIteration ==
    \E tok \in UrlTokens :
        /\ Len(stream) < MaxUrlTokens
        /\ (CaseText(tok) \/ CaseA(tok))

NextUrl ==
    \/ CreateScanner
    \/ UrlIteration
    \/ EndOfStream(FALSE)

SpecUrl == InitUrl /\ [][NextUrl]_vars

\* href begins with http://, https:// or mailto://
CarriesScheme(href) ==
    \/ Len(href) >= 7 /\ SubSeq(href, 1, 7) = <<"h", "t", "t", "p", ":", "/", "/">>
    \/ Len(href) >= 8 /\ SubSeq(href, 1, 8) = <<"h", "t", "t", "p", "s", ":", "/", "/">>
    \/ Len(href) >= 9
       /\ SubSeq(href, 1, 9) = <<"m", "a", "i", "l", "t", "o", ":", "/", "/">>

\* the base in effect: / when none is known
EffectiveBase(base) == IF Len(base) = 0 THEN <<"/">> ELSE base

\* the document is the single link <a href=...>L</a>
OnlyLink(href) ==
    pc = "loop" /\ stream = <<AnchorTo(href), LabelToken, Closer("A")>>

MaxBaseTokens == 7

AbsoluteBase == <<"h", "t", "t", "p", ":", "/", "/", "x", "/">>

BaseTag(href) == OpenerWith("BASE", "href" :> href, <<>>)

\* BASE tags: an absolute href, a relative href inside white space, a blank
\* href, an href without a value, no href
BaseTags ==
    {BaseTag(Str(AbsoluteBase)), BaseTag(Str(<<" ", "/", "d", "/", " ">>)),
     BaseTag(Str(<<" ", " ">>)), BaseTag(BoolTrue), Opener("BASE")}

PageLink == <<AnchorTo(<<"p">>), LabelToken, Closer("A")>>

\* tok continues a document of BASE tags and whole links
ContinuesBaseDocument(tok) ==
    LET last == IF stream = <<>> THEN Closer("A") ELSE stream[Len(stream)]
    IN \/ tok \in BaseTags \cup {PageLink[1]} /\ OpenElements = <<>>
       \/ tok = PageLink[2] /\ last = PageLink[1]
       \/ tok = PageLink[3] /\ last = PageLink[2]

InitBaseTag ==
    /\ \E b \in {<<>>, BaseExample} : StartOfCall(<<>>, b, DefaultWidth)
    /\ BeforeFirstCall
    /\ calls = <<>>
    /\ NoHost

BaseIteration ==
    \E tok \in BaseTags \cup {PageLink[k] : k \in 1..3} :
        /\ Len(stream) < MaxBaseTokens
        /\ ContinuesBaseDocument(tok)
        /\ (CaseText(tok) \/ CaseA(tok) \/ CaseBase(tok))

NextBaseTag ==
    \/ CreateScanner
    \/ BaseIteration
    \/ EndOfStream(FALSE)

SpecBaseTag == InitBaseTag /\ [][NextBaseTag]_vars


\* a BASE tag whose href is a string that is not empty once trimmed
Adoptable(tok) ==
    /\ tok.name = "BASE"
    /\ get_attribute(tok, "href").kind = "string"
    /\ Trim(get_attribute(tok, "href").val) # <<>>

\* the base the tokens ts leave in effect under the caller's base arg: arg
\* when there is one, else the trimmed href of the first adoptable BASE tag,
\* resolved as any URL is, else none
BaseInEffect(ts, arg) ==
    LET adoptables == {i \in 1..Len(ts) : Adoptable(ts[i])}
        first == CHOOSE i \in adoptables : \A j \in adoptables : i <= j
        href == Trim(get_attribute(ts[first], "href").val)
    IN IF arg # <<>> THEN arg
       ELSE IF adoptables = {} THEN <<>>
       ELSE IF CarriesScheme(href) THEN href
       ELSE <<"/">> \o href

\* the links <a href="p">L</a> of ts, each resolved against the base in
\* effect where it stands
RECURSIVE LinksResolved(_, _, _)
LinksResolved(ts, upTo, arg) ==
    IF upTo < 3 THEN <<>>
    ELSE IF SubSeq(ts, upTo - 2, upTo) = PageLink
    THEN LinksResolved(ts, upTo - 3, arg)
         \o LinkText(Backslashed(EffectiveBase(BaseInEffect(SubSeq(ts, 1, upTo - 3), arg))
                                 \o <<"p">>), FALSE)
    ELSE LinksResolved(ts, upTo - 1, arg)

\* C12: the base URL changes at most once per call: only at a BASE tag whose
\* href is a string not empty once trimmed, and only when the caller gave no
\* base and none was adopted before; a base given by the caller is never
\* replaced, the first adoptable BASE tag wins over later ones, and every
\* link is resolved against the base in effect where it stands: the default
\* before the adopted BASE tag, the adopted base after it.
C12_BaseAdoptedOnce ==
    /\ [][baseUrl' # baseUrl =>
             /\ baseUrlArg = <<>> /\ baseUrl = <<>> /\ baseUrl' # <<>>
             /\ pc = "loop" /\ stream' # stream
             /\ Adoptable(stream'[Len(stream')])]_vars
    /\ [](baseUrlArg # <<>> => baseUrl = baseUrlArg)
    /\ [](pc = "loop" =>
             /\ baseUrl = BaseInEffect(stream, baseUrlArg)
             /\ OpenElements = <<>> => line = LinksResolved(stream, Len(stream), baseUrlArg))

\* a link, an adoptable BASE tag and a second link, with no base from the
\* caller: the first link is resolved against the default, the second
\* against the adopted base
C12_Witness ==
    /\ pc = "loop"
    /\ baseUrlArg = <<>>
    /\ Len(stream) = 7
    /\ SubSeq(stream, 1, 3) = PageLink
    /\ stream[4] = BaseTag(Str(<<" ", "/", "d", "/", " ">>))
    /\ SubSeq(stream, 5, 7) = PageLink
    /\ baseUrl = <<"/", "/", "d", "/">>
    /\ line = <<"[", "L", "]", "(", "\\", "/", "p", ")",
                "[", "L", "]", "(", "\\", "/", "\\", "/", "d", "\\", "/", "p", ")">>


(***************************************************************************)
(* Wrapping: paragraphs and block quotes of short words, a long word and   *)
(* exclamation marks, converted at small widths.                           *)
(***************************************************************************)
MaxWrapTokens == 6

WrapWidths == {5, 7}

\* every text starts a new word: with a space, or with the backslash of an
\* escaped exclamation mark
WrapTexts ==
    {<<" ", "a", "b">>, <<" ", "c", "d", "e", "f", "g", "h", "i">>, <<"!">>}

\* the words a document of these texts is made of
WrapWordSet ==
    {<<"a", "b">>, <<"c", "d", "e", "f", "g", "h", "i">>, <<"\\">>, <<"!">>, <<" ">>}

WrapTokens ==
    {TextToken(t) : t \in WrapTexts}
    \cup {Opener("BLOCKQUOTE"), Closer("BLOCKQUOTE"), Opener("P"), Closer("P")}

InitWrap ==
    /\ \E w \in WrapWidths : StartOfCall(<<>>, <<>>, w)
    /\ BeforeFirstCall
    /\ calls = <<>>
    /\ NoHost

WrapIteration ==
    \E tok \in WrapTokens :
        /\ Len(stream) < MaxWrapTokens
        /\ tok.closer => MatchedCloser(tok)
        /\ (CaseText(tok) \/ CaseBlock(tok))

NextWrap ==
    \/ CreateScanner
    \/ WrapIteration
    \/ EndOfStream(FALSE)

SpecWrap == InitWrap /\ [][NextWrap]_vars

\* the lines of s that are not empty
LinesOf(s) ==
    {SubSeq(s, i, i + RunLen(s, i, {s[k] : k \in 1..Len(s)} \ {"\n"}) - 1) :
        i \in {k \in 1..Len(s) : s[k] # "\n" /\ (k = 1 \/ s[k - 1] = "\n")}}

\* how many block-quote prefixes "> " a line starts with
QuoteDepth(ln) ==
    Cardinality({k \in 1..(Len(ln) \div 2) :
                    \A q \in 1..k : ln[2 * q - 1] = ">" /\ ln[2 * q] = " "})

\* the words of a line behind its prefix
LineWords(ln) == splitWords(SubSeq(ln, 2 * QuoteDepth(ln) + 1, Len(ln)))

\* a word made of the characters , . ? ! only
PunctuationWord(word) ==
    word # <<>> /\ \A i \in 1..Len(word) : word[i] \in {",", ".", "?", "!"}

\* the line up to its last word that is no punctuation word
BeforeTrailingPunctuation(ln) ==
    LET ws == LineWords(ln)
        kept == Cardinality({i \in 1..Len(ws) :
                    \E j \in i..Len(ws) : ~ PunctuationWord(ws[j])})
    IN [words |-> kept,
        text |-> SubSeq(ln, 1, 2 * QuoteDepth(ln)) \o JoinRange(ws, 1, kept)]

\* every word of every output line is a whole word of the document
NoWordSplit == \A ln \in LinesOf(md) : \A k \in DOMAIN LineWords(ln) :
                   LineWords(ln)[k] \in WrapWordSet

\* C13 as stated: every output line, prefix included, has at most width
\* grapheme clusters, unless it is the prefix and one word that is by itself
\* longer than the width; and no word is split across lines.
C13_LinesWithinWidth ==
    /\ \A ln \in LinesOf(md) :
          \/ graphemeLength(ln) <= width
          \/ Len(LineWords(ln)) = 1 /\ graphemeLength(LineWords(ln)[1]) > width
    /\ NoWordSplit

\* C13 amended: an output line, prefix included, has more than width grapheme
\* clusters only when it holds the prefix and a single word that does not fit
\* behind the prefix, or by the words made of , . ? ! at its end, which stay
\* on the line of the word before them; and no word is split across lines.
C13_LinesWithinWidthButPunctuation ==
    /\ \A ln \in LinesOf(md) :
          \/ graphemeLength(BeforeTrailingPunctuation(ln).text) <= width
          \/ BeforeTrailingPunctuation(ln).words <= 1
    /\ NoWordSplit

\* a paragraph in a block quote has been wrapped into three lines or more,
\* one of them longer than the width
C13_Witness ==
    /\ pc = "loop"
    /\ Cardinality(LinesOf(md)) >= 3
    /\ \E ln \in LinesOf(md) : QuoteDepth(ln) = 1 /\ graphemeLength(ln) > width
    /\ \E ln \in LinesOf(md) : Len(LineWords(ln)) >= 3 /\ graphemeLength(ln) <= width


(***************************************************************************)
(* Code: documents of PRE, CODE and text.                                  *)
(***************************************************************************)
MaxFenceTokens == 6

PythonCode == OpenerWith("CODE", NoAttrs, <<PythonClass>>)

FenceTokens ==
    {TextToken(<<"a">>), TextToken(<<"x">>), Opener("PRE"), Closer("PRE"),
     PythonCode, Opener("CODE"), Closer("CODE")}

FenceIteration ==
    \E tok \in FenceTokens :
        /\ Len(stream) < MaxFenceTokens
        /\ tok.closer => MatchedCloser(tok)
        /\ (CaseText(tok) \/ CaseCode(tok) \/ CaseOther(tok))

NextFence ==
    \/ CreateScanner
    \/ FenceIteration
    \/ EndOfStream(FALSE)

SpecFence == InitList /\ [][NextFence]_vars

\* the fenced block of <pre><code class="language-python">x</code>
PythonBlock ==
    <<BacktickChar, BacktickChar, BacktickChar, "p", "y", "t", "h", "o", "n", "\n",
      "x", "\n", BacktickChar, BacktickChar, BacktickChar, "\n">>

\* C14: a CODE element under a PRE is emitted as a fenced block: a line of
\* three backticks directly followed by the language, the content, and a
\* line of three backticks; once <pre><code class="language-python">x</code>
\* is converted, whatever came before it, the output ends with the lines
\* ```python, x and ```, each from the start of its line.
C14_FencedBlock ==
    /\ pc = "loop"
    /\ Len(stream) >= 4
    /\ SubSeq(stream, Len(stream) - 3, Len(stream))
           = <<Opener("PRE"), PythonCode, TextToken(<<"x">>), Closer("CODE")>>
    => \E k \in 0..2 :
           LET block == PythonBlock \o Repeat(<<"\n">>, k)
           IN md = block \/ EndsWith(md, <<"\n">> \o block)


(***************************************************************************)
(* Plain text: the document is one text without markup, which the scanner  *)
(* yields as one text token, converted at a small and at the default width.*)
(***************************************************************************)
MaxPlainLen == 4

PlainChars == {"a", " ", "-", "!", "\n"}

PlainWidths == {3, DefaultWidth}

InitPlain ==
    /\ \E t \in TextsUpTo(PlainChars, MaxPlainLen), w \in PlainWidths :
           StartOfCall(t, <<>>, w)
    /\ BeforeFirstCall
    /\ calls = <<>>
    /\ NoHost

\* the scanner yields the text of the document
PlainText ==
    /\ stream = <<>>
    /\ html # <<>>
    /\ CaseText(TextToken(html))

PlainEnd ==
    /\ html = <<>> \/ stream # <<>>
    /\ EndOfStream(FALSE)

NextPlain ==
    \/ CreateScanner
    \/ PlainText
    \/ PlainEnd

SpecPlain == InitPlain /\ [][NextPlain]_vars

\* s without the backslashes that escape an ASCII punctuation character
Unescaped(s) ==
    LET BackslashesBefore(i) ==
            Cardinality({j \in 1..(i - 1) : \A m \in j..(i - 1) : s[m] = "\\"})
        Escapes(i) ==
            /\ s[i] = "\\"
            /\ BackslashesBefore(i) % 2 = 0
            /\ i < Len(s)
            /\ s[i + 1] \in AsciiPunctuation
    IN Join([i \in 1..Len(s) |-> IF Escapes(i) THEN <<>> ELSE <<s[i]>>])

\* s trimmed, every run of white space one space
NormalisedSpace(s) == ReplaceRuns(Trim(s), WhiteSpace, <<" ">>)

\* C15: a text without markup converts to itself up to white space and
\* escaping: the result without its escaping backslashes and the text are
\* equal once white space is normalised on both sides.
C15_PlainTextRoundTrip ==
    pc = "done" /\ stream = <<TextToken(html)>> =>
        NormalisedSpace(Unescaped(result)) = NormalisedSpace(html)


\* the entry an OL or UL tag stands for in the list-context stack
ListKind(name) == IF name = "OL" THEN "decimal" ELSE "-"

\* the kinds of the open lists, outermost first
OpenListKinds ==
    LET lists == SelectSeq(crumbs, LAMBDA n : n \in {"OL", "UL"})
    IN [k \in 1..Len(lists) |-> ListKind(lists[k])]

\* C16: an OL or UL opener pushes one entry (its kind, counter 0), an OL or
\* UL closer pops the innermost entry, an LI opener adds 1 to the innermost
\* counter and to nothing else (to nothing at all on an empty stack), and
\* any other token leaves the stack as it is; so in a well-nested document
\* the stack holds one entry per open list, outermost first.
C16_ListStackDiscipline ==
    /\ [][pc = "loop" /\ pc' = "loop" =>
            LET tok == stream'[Len(stream')]
                n == Len(olCounts)
            IN CASE tok.name \in {"OL", "UL"} /\ ~ tok.closer ->
                        olCounts' = olCounts \o <<ListKind(tok.name), 0>>
                 [] tok.name \in {"OL", "UL"} /\ tok.closer ->
                        /\ n >= 2
                        /\ olCounts[n - 1] = ListKind(tok.name)
                        /\ olCounts' = SubSeq(olCounts, 1, n - 2)
                 [] tok.name = "LI" /\ ~ tok.closer ->
                        /\ Len(olCounts') = n
                        /\ \A k \in 1..(n - 1) : olCounts'[k] = olCounts[k]
                        /\ n > 0 => olCounts'[n] = olCounts[n] + 1
                 [] OTHER -> olCounts' = olCounts]_vars
    /\ [](pc = "loop" =>
            /\ Len(olCounts) = 2 * Len(OpenListKinds)
            /\ \A k \in 1..Len(OpenListKinds) :
                  olCounts[2 * k - 1] = OpenListKinds[k] /\ olCounts[2 * k] \in Nat)

\* an unordered list opens inside the second item of an ordered list: two
\* entries, the outer counter at 2, the inner at 0
C16_Witness ==
    /\ pc = "loop"
    /\ crumbs = RootCrumbs \o <<"OL", "LI", "UL">>
    /\ stream[Len(stream)] = Opener("UL")
    /\ olCounts = <<"decimal", 2, "-", 0>>


(***************************************************************************)
(* Nested blocks: documents of lists, items, block quotes, line breaks and *)
(* text, as the parser builds them: an LI opener closes an open LI first,  *)
(* so that no LI is the child of an LI.                                    *)
(***************************************************************************)
MaxNestTokens == 6

NestIteration ==
    \E tok \in ListTokens(stream)
               \cup {Opener("BLOCKQUOTE"), Closer("BLOCKQUOTE"), Opener("BR")} :
        /\ Len(stream) < MaxNestTokens
        /\ tok.closer => MatchedCloser(tok)
        /\ tok = Opener("LI") => crumbs[Len(crumbs)] # "LI"
        /\ (CaseText(tok) \/ CaseLi(tok) \/ CaseOl(tok) \/ CaseUl(tok)
            \/ CaseBlock(tok) \/ CaseBr(tok))

NextNest ==
    \/ CreateScanner
    \/ NestIteration
    \/ EndOfStream(FALSE)

SpecNest == InitList /\ [][NextNest]_vars

\* case LI of the walk as the rule of the innermost item has it: the marker
\* for the innermost LI of the path, spaces of the marker's width for any other
InnermostRuleLI(c, oc, innermost) ==
    IF c.listDepth = 0 THEN c
    ELSE LET listType == OlAt(oc, (c.listDepth - 1) * 2)
             count == OlAt(oc, (c.listDepth - 1) * 2 + 1)
             marker == listMarker(listType,
                                  IF listType = "-" THEN c.listDepth ELSE count)
             spaces == [k \in 1..graphemeLength(marker) |-> " "]
         IN [c EXCEPT
                !.firstPrefix = @ \o (IF innermost THEN marker ELSE spaces) \o <<" ">>,
                !.linePrefix = @ \o spaces \o <<" ">>]

\* the walk over path from index i on under that rule
RECURSIVE InnermostRuleWalk(_, _, _, _)
InnermostRuleWalk(path, i, oc, c) ==
    IF i > Len(path) THEN c
    ELSE InnermostRuleWalk(path, i + 1, oc,
            IF path[i] = "LI"
            THEN InnermostRuleLI(c, oc, \A j \in (i + 1)..Len(path) : path[j] # "LI")
            ELSE ContextStep(c, path[i], oc))

\* the token of this step makes the loop call flushLine
FlushingStep ==
    /\ pc = "loop" /\ pc' = "loop"
    /\ LET tok == stream'[Len(stream')]
       IN \/ tok.name \in {"OL", "UL", "BLOCKQUOTE", "P", "BR", "HR"}
          \/ tok.name = "LI" /\ ~ tok.closer

\* C17: at every flush the innermost LI of the breadcrumb path, and no other,
\* puts its marker and a space into the first-line prefix, every shallower
\* LI puts spaces of its marker's width and one more, and the continuation
\* prefix has spaces for every LI, so that both prefixes are equally long.
C17_InnermostItemMarker ==
    [][FlushingStep =>
          LET path == Slice2(crumbs')
              c == BlockContext(path, olCounts, NoContext)
              rule == InnermostRuleWalk(path, 1, olCounts, NoContext)
          IN /\ c.firstPrefix = rule.firstPrefix
             /\ c.linePrefix = rule.linePrefix
             /\ graphemeLength(c.firstPrefix) = graphemeLength(c.linePrefix)]_vars


(***************************************************************************)
(* Headings: documents of H1..H6 and text, no heading inside a heading,    *)
(* converted at a small and at the default width.                          *)
(***************************************************************************)
MaxHeadingTokens == 4

HeadingTexts == {<<"a", "b">>, <<" ", "a", "b", " ", "c", "d", " ">>}

HeadingTokens ==
    {TextToken(t) : t \in HeadingTexts}
    \cup {Opener(h) : h \in Headings} \cup {Closer(h) : h \in Headings}

InitHeading ==
    /\ \E w \in {5, DefaultWidth} : StartOfCall(<<>>, <<>>, w)
    /\ BeforeFirstCall
    /\ calls = <<>>
    /\ NoHost

HeadingIteration ==
    \E tok \in HeadingTokens :
        /\ Len(stream) < MaxHeadingTokens
        /\ tok.closer => MatchedCloser(tok)
        /\ tok.name \in Headings /\ ~ tok.closer =>
               \A k \in 1..Len(crumbs) : crumbs[k] \notin Headings
        /\ (CaseText(tok) \/ CaseHeading(tok))

NextHeading ==
    \/ CreateScanner
    \/ HeadingIteration
    \/ EndOfStream(FALSE)

SpecHeading == InitHeading /\ [][NextHeading]_vars

\* C18: the content of a heading is written as one unwrapped line: once the
\* element <hN>text</hN> is converted, at any width, the output ends with
\* the single line of N number signs, a space and the trimmed text.
C18_HeadingOneLine ==
    \A h \in Headings, t \in HeadingTexts :
        /\ pc = "loop"
        /\ Len(stream) >= 3
        /\ SubSeq(stream, Len(stream) - 2, Len(stream))
               = <<Opener(h), TextToken(t), Closer(h)>>
        => EndsWith(md, <<"\n">> \o [k \in 1..HeadingLevel(h) |-> "#"] \o <<" ">>
                        \o Trim(t) \o <<"\n">>)


(***************************************************************************)
(* One link among text, paragraphs and line breaks: the link may hold      *)
(* flushing tokens between its opener and its closer.                      *)
(***************************************************************************)
MaxAnchorTokens == 6

AnchorDocTokens ==
    {TextToken(<<"x">>), TextToken(<<"y">>), Opener("BR"), Opener("P"), Closer("P"),
     AnchorTo(<<"p">>), Closer("A")}

\* the link, if the tokens st hold one, starts at this index (0 when none)
AnchorAt(st) ==
    IF \E i \in 1..Len(st) : st[i] = AnchorTo(<<"p">>)
    THEN CHOOSE i \in 1..Len(st) : st[i] = AnchorTo(<<"p">>)
    ELSE 0

AnchorIteration ==
    \E tok \in AnchorDocTokens :
        /\ Len(stream) < MaxAnchorTokens
        /\ tok.closer => MatchedCloser(tok)
        /\ tok = AnchorTo(<<"p">>) => AnchorAt(stream) = 0
        /\ (CaseText(tok) \/ CaseA(tok) \/ CaseBr(tok) \/ CaseBlock(tok))

NextAnchor ==
    \/ CreateScanner
    \/ AnchorIteration
    \/ EndOfStream(FALSE)

SpecAnchor == InitList /\ [][NextAnchor]_vars

\* the texts of the tokens lo..hi of st that no flushing token of lo..hi follows
UnflushedText(st, lo, hi) ==
    Join([i \in 1..Len(st) |->
            IF /\ i \in lo..hi
               /\ st[i].name = "#text"
               /\ \A j \in (i + 1)..hi : st[j].name \notin {"BR", "P"}
            THEN st[i].text ELSE <<>>])

\* C19: the A opener moves the whole line buffer into the capture slot and
\* empties the buffer; the slot keeps it until the closer, whatever tokens
\* come in between; the A closer takes the buffer as the label and sets the
\* buffer to the content that preceded the opener followed by the link
\* markup, that content there once, not lost and not doubled.
C19_LabelIsolation ==
    LET n == Len(stream)
        o == AnchorAt(stream)
        before == UnflushedText(stream, 1, o - 1)
        label == UnflushedText(stream, o + 1, n - 1)
    IN pc = "loop" /\ o > 0 =>
          /\ o = n => linkSwap = before /\ line = <<>>
          /\ Includes(OpenElements, "A") => linkSwap = before
          /\ stream[n] = Closer("A") =>
                line = before \o <<"[">> \o label \o <<"]", "(", "\\", "/", "p", ")">>

\* text, the opener, label text, a line break, label text and the closer:
\* the text before the link is in the buffer once, in front of the link
C19_Witness ==
    /\ pc = "loop"
    /\ stream = <<TextToken(<<"x">>), AnchorTo(<<"p">>), TextToken(<<"y">>),
                  Opener("BR"), TextToken(<<"x">>), Closer("A")>>
    /\ line = <<"x", "[", "x", "]", "(", "\\", "/", "p", ")">>


\* the indices at which s holds x
IndicesOf(s, x) == {i \in 1..Len(s) : s[i] = x}

\* C20: text reaches the output in document order: when the text x and the
\* text y each occur once in the document, the one that comes first in the
\* token stream comes first in the returned Markdown, also when a line break
\* or a paragraph tag stands between the A opener and its closer while
\* earlier text is held in the capture slot.
C20_DocumentOrder ==
    \A a, b \in {"x", "y"} :
        LET ta == IndicesOf(stream, TextToken(<<a>>))
            tb == IndicesOf(stream, TextToken(<<b>>))
        IN /\ pc = "done"
           /\ Cardinality(ta) = 1 /\ Cardinality(tb) = 1
           /\ \A i \in ta, j \in tb : i < j
           => /\ IndicesOf(result, a) # {} /\ IndicesOf(result, b) # {}
              /\ \A i \in IndicesOf(result, a), j \in IndicesOf(result, b) : i < j


(***************************************************************************)
(* Text tokens: every text of spaces, tabs, newlines and a letter, at the  *)
(* start of the body, behind text, and under PRE.                          *)
(***************************************************************************)
MaxTextLen == 3

TextChars == {"a", " ", "\t", "\n"}

\* what the scanner has yielded before the text under test
TextContexts ==
    {<<>>, <<TextToken(<<"a">>)>>, <<Opener("PRE")>>,
     <<Opener("PRE"), TextToken(<<"a">>)>>}

TextIteration ==
    \E tok \in {TextToken(t) : t \in TextsUpTo(TextChars, MaxTextLen)}
               \cup {Opener("PRE"), Closer("PRE")} :
        /\ stream \in TextContexts
        /\ tok.closer => MatchedCloser(tok)
        /\ (CaseText(tok) \/ CaseOther(tok))

NextText ==
    \/ CreateScanner
    \/ TextIteration
    \/ EndOfStream(FALSE)

SpecText == InitList /\ [][NextText]_vars

\* spaces, none or more, then newlines, one or more, and nothing else
SpacesThenNewlines(text) ==
    \E k \in 0..(Len(text) - 1) :
        /\ \A i \in 1..k : text[i] = " "
        /\ \A i \in (k + 1)..Len(text) : text[i] = "\n"

\* C21: a text token is discarded, no state changing, exactly when it is
\* spaces, none or more, followed by newlines, one or more, and nothing
\* else; any other text is appended to the line buffer (an empty text adds
\* nothing): a text of spaces only as one space, a text with a tab too.
C21_LayoutTextDiscarded ==
    [][pc = "loop" /\ pc' = "loop" /\ stream'[Len(stream')].name = "#text" =>
          LET text == stream'[Len(stream')].text
          IN /\ SpacesThenNewlines(text) => UNCHANGED locals
             /\ UNCHANGED locals => SpacesThenNewlines(text) \/ text = <<>>
             /\ ~ SpacesThenNewlines(text) /\ text # <<>> =>
                   /\ Len(line') > Len(line)
                   /\ SubSeq(line', 1, Len(line)) = line
                   /\ md' = md
             /\ text = <<" ", " ">> /\ ~ Includes(crumbs, "PRE") => line' = line \o <<" ">>
             /\ text = <<"\t", "\n">> /\ ~ Includes(crumbs, "PRE") =>
                   line' = line \o <<"\n">>]_vars

\* a text of spaces only has been appended behind text, and a text of a
\* space and a newline has left the buffer as it was
C21_Witness ==
    /\ pc = "loop"
    /\ \/ stream = <<TextToken(<<"a">>), TextToken(<<" ", " ">>)>> /\ line = <<"a", " ">>
       \/ stream = <<TextToken(<<"a">>), TextToken(<<" ", "\n">>)>> /\ line = <<"a">>


\* C22: preformatted text is kept as it is: every text token under a PRE is
\* appended to the line buffer unchanged, not escaped, not collapsed and
\* never dropped.
C22_PreTextVerbatim ==
    [][/\ pc = "loop" /\ pc' = "loop"
       /\ stream'[Len(stream')].name = "#text"
       /\ Includes(crumbs, "PRE")
       => line' = line \o stream'[Len(stream')].text]_vars


\* C23: a BR always flushes; when the line buffer holds something at the BR,
\* the line written ends with the two spaces of the hard break before its
\* newline; when the buffer is empty, a newline alone is written.
C23_HardBreak ==
    [][pc = "loop" /\ pc' = "loop" /\ stream'[Len(stream')].name = "BR" =>
          /\ line' = <<>>
          /\ line # <<>> => EndsWith(md', <<" ", " ", "\n">>)
          /\ line = <<>> => md' = md \o <<"\n">>]_vars


\* C24: a heading opener flushes the pending content and forces a blank
\* line behind it, so that whatever was written before the heading is
\* followed by an empty line, and then leaves N number signs and a space in
\* the line buffer, N the digit of the tag name.
C24_HeadingSeparated ==
    [][/\ pc = "loop" /\ pc' = "loop"
       /\ stream'[Len(stream')].name \in Headings
       /\ ~ stream'[Len(stream')].closer
       => /\ line' = [k \in 1..HeadingLevel(stream'[Len(stream')].name) |-> "#"] \o <<" ">>
          /\ \/ \A i \in 1..Len(md') : md'[i] = "\n"
             \/ EndsWith(md', <<"\n", "\n">>)]_vars


\* the line buffer after a formatting tag whose counter stood at depth: the
\* marker with the separator outside it at the two depth boundaries, and
\* nothing anywhere else
MarkedAtBoundary(buffer, depth, isCloser, marker) ==
    IF depth = 0 /\ ~ isCloser THEN buffer \o SEP \o marker
    ELSE IF depth = 1 /\ isCloser THEN buffer \o marker \o SEP
    ELSE buffer

\* C25: a B or STRONG tag appends two asterisks exactly when the strong
\* counter goes from 0 to 1 on an opener or from 1 to 0 on a closer, the
\* separator before the opening marker and after the closing one; an I or EM
\* tag does the same with one underscore and the emphasis counter; each
\* counter moves by one at its own tags and is untouched by the other's.
C25_MarkersAtDepthBoundaries ==
    [][pc = "loop" /\ pc' = "loop" =>
          LET tok == stream'[Len(stream')]
          IN /\ tok.name \in {"B", "STRONG"} =>
                   /\ strongDepth' = strongDepth + (IF tok.closer THEN -1 ELSE 1)
                   /\ emDepth' = emDepth
                   /\ line' = MarkedAtBoundary(line, strongDepth, tok.closer, <<"*", "*">>)
             /\ tok.name \in {"I", "EM"} =>
                   /\ emDepth' = emDepth + (IF tok.closer THEN -1 ELSE 1)
                   /\ strongDepth' = strongDepth
                   /\ line' = MarkedAtBoundary(line, emDepth, tok.closer, <<"_">>)]_vars

\* strong inside emphasis inside strong, all closed again
C25_Witness ==
    /\ pc = "loop"
    /\ stream = <<Opener("B"), Opener("I"), Opener("STRONG"), TextToken(<<"x">>),
                  Closer("STRONG"), Closer("I"), Closer("B")>>
    /\ line = SEP \o <<"*", "*">> \o SEP \o <<"_", "x", "_">> \o SEP \o <<"*", "*">> \o SEP
    /\ strongDepth = 0 /\ emDepth = 0


(***************************************************************************)
(* Punctuation at a line break: paragraphs and preformatted blocks of a    *)
(* word, a space, an exclamation mark and an image, at small widths.       *)
(***************************************************************************)
MaxTrailTokens == 5

TrailWidths == {4, 7}

TrailImage == OpenerWith("IMG", "src" :> Str(<<"s">>), <<>>)

TrailTokens ==
    {TextToken(<<"a", "b", "c", "d">>), TextToken(<<" ">>), TextToken(<<"!">>),
     TrailImage, Opener("P"), Closer("P"), Opener("PRE"), Closer("PRE")}

InitTrail ==
    /\ \E w \in TrailWidths : StartOfCall(<<>>, <<>>, w)
    /\ BeforeFirstCall
    /\ calls = <<>>
    /\ NoHost

TrailIteration ==
    \E tok \in TrailTokens :
        /\ Len(stream) < MaxTrailTokens
        /\ tok.closer => MatchedCloser(tok)
        /\ (CaseText(tok) \/ CaseImg(tok) \/ CaseBlock(tok) \/ CaseOther(tok))

NextTrail ==
    \/ CreateScanner
    \/ TrailIteration
    \/ EndOfStream(FALSE)

SpecTrail == InitTrail /\ [][NextTrail]_vars

\* the first word of the text that starts at index i of s
WordAt(s, i) == splitWords(SubSeq(s, i, Len(s)))[1]

\* C26: no line that the wrapping of a flush starts begins with a word made
\* of the characters , . ? ! only: such a word stays on the line of the word
\* before it. (The documents have no list and no block quote, so that the
\* prefix is empty, and no newline in their text, so that every line break
\* inside what one flush writes is one the wrapping made.)
C26_PunctuationNeverOpensLine ==
    [][Len(md') > Len(md) /\ SubSeq(md', 1, Len(md)) = md =>
          LET written == SubSeq(md', Len(md) + 1, Len(md') - 1)
          IN \A i \in 2..Len(written) :
                 written[i - 1] = "\n" => ~ PunctuationWord(WordAt(written, i))]_vars


(***************************************************************************)
(* Flushes: paragraphs opened and closed in lists, headings, preformatted  *)
(* blocks, strong text and links.                                          *)
(***************************************************************************)
MaxFlushTokens == 5

FlushTokens ==
    {BaseTag(Str(BareBase)), AnchorTo(<<"p">>), Opener("B"), Opener("OL"),
     Opener("H1"), Opener("PRE"), Opener("P"), Closer("P"),
     TextToken(<<"a">>), TextToken(<<"a", "\n">>)}

FlushIteration ==
    \E tok \in FlushTokens :
        /\ Len(stream) < MaxFlushTokens
        /\ tok.closer => MatchedCloser(tok)
        /\ \/ CaseText(tok) \/ CaseBase(tok) \/ CaseA(tok) \/ CaseStrong(tok)
           \/ CaseOl(tok) \/ CaseHeading(tok) \/ CaseBlock(tok) \/ CaseOther(tok)

NextFlush ==
    \/ CreateScanner
    \/ FlushIteration
    \/ EndOfStream(FALSE)

SpecFlush == InitList /\ [][NextFlush]_vars

\* the step is a P token, whose rule is a flush and nothing else
FlushOnly == pc = "loop" /\ pc' = "loop" /\ stream'[Len(stream')].name = "P"

\* what the step has added to md
Written == SubSeq(md', Len(md) + 1, Len(md'))

\* C27 as stated: a flush adds to md a text that ends with exactly one
\* newline, empties the line buffer and changes nothing else.
C27_FlushOneNewline ==
    [][FlushOnly =>
          /\ Len(md') > Len(md) /\ SubSeq(md', 1, Len(md)) = md
          /\ EndsWith(Written, <<"\n">>) /\ ~ EndsWith(Written, <<"\n", "\n">>)
          /\ line' = <<>>
          /\ UNCHANGED <<olCounts, linkSwap, lastAttrs, baseUrl, emDepth, strongDepth>>]_vars

\* C27 amended: a flush adds to md a text that ends with a newline, exactly
\* one unless the flush runs under a PRE, where the buffer is not trimmed and
\* the newlines it ends with stay in front of the terminating one; it
\* empties the line buffer and changes nothing else.
C27_FlushOneNewlineOutsidePre ==
    [][FlushOnly =>
          /\ Len(md') > Len(md) /\ SubSeq(md', 1, Len(md)) = md
          /\ EndsWith(Written, <<"\n">>)
          /\ ~ Includes(crumbs', "PRE") => ~ EndsWith(Written, <<"\n", "\n">>)
          /\ line' = <<>>
          /\ UNCHANGED <<olCounts, linkSwap, lastAttrs, baseUrl, emDepth, strongDepth>>]_vars

\* a paragraph opens in strong text in a link behind a BASE tag; or opens and
\* closes on an empty buffer in a list; or opens in a heading; or under a PRE
\* with a buffer that ends with a newline
C27_Witness ==
    /\ pc = "loop"
    /\ \/ /\ stream = <<BaseTag(Str(BareBase)), TextToken(<<"a">>), AnchorTo(<<"p">>),
                        Opener("B"), Opener("P")>>
          /\ md = SEP \o <<"*", "*", "\n">>
          /\ line = <<>> /\ linkSwap = <<"a">> /\ strongDepth = 1 /\ baseUrl # <<>>
       \/ /\ stream = <<Opener("OL"), Opener("P"), Closer("P")>>
          /\ md = <<"\n", "\n", "\n">> /\ olCounts # <<>>
       \/ /\ stream = <<Opener("H1"), TextToken(<<"a">>), Opener("P")>>
          /\ md = <<"\n", "#", " ", "a", "\n">>
       \/ /\ stream = <<Opener("PRE"), TextToken(<<"a", "\n">>), Opener("P")>>
          /\ md = <<"a", "\n", "\n">>


\* the tag names that have a rule
DispatchedTags ==
    {"A", "B", "STRONG", "BASE", "BR", "CODE", "H1", "H2", "H3", "H4", "H5", "H6",
     "HR", "I", "EM", "IMG", "LI", "OL", "UL", "BLOCKQUOTE", "P"}

\* an LI closer, a comment, or a tag that has no rule
WithoutRule(tok) ==
    \/ tok.name = "LI" /\ tok.closer
    \/ tok.name = "#comment"
    \/ tok.name \notin DispatchedTags \cup {"#text", "#comment"}

\* tokens whose rule works on the line buffer only
BufferOnly(tok, bc) ==
    \/ tok.name \in {"#text", "A", "B", "STRONG", "I", "EM", "IMG", "BASE"}
    \/ tok.name = "CODE" /\ ~ Includes(bc, "PRE")

\* C28: an LI closer, a comment and the opener or closer of a tag without a
\* rule leave md, the line buffer, the list stack, the link slot, the base URL
\* and the two depth counters as they were; and text, A, B, STRONG, I, EM,
\* IMG, BASE, and CODE outside a PRE, leave md as it was.
C28_TokensWithoutRuleInert ==
    [][pc = "loop" /\ pc' = "loop" =>
          LET tok == stream'[Len(stream')]
          IN /\ WithoutRule(tok) =>
                   UNCHANGED <<md, line, olCounts, linkSwap, baseUrl, emDepth, strongDepth>>
             /\ BufferOnly(tok, crumbs') => md' = md]_vars

\* a DIV opens in strong text with the marker in the buffer; or a comment
\* stands in a list; or an image follows a paragraph opener
C28_Witness ==
    /\ pc = "loop"
    /\ \/ /\ stream = <<Opener("B"), Opener("DIV")>>
          /\ line = SEP \o <<"*", "*">> /\ strongDepth = 1
       \/ /\ stream = <<Opener("OL"), CommentToken>>
          /\ olCounts # <<>> /\ md = <<"\n">>
       \/ /\ Len(stream) = 2 /\ stream[1] = Opener("P") /\ stream[2].name = "IMG"
          /\ md = <<"\n">> /\ line # <<>>


(***************************************************************************)
(* Fence languages: one CODE element with up to two class names and the    *)
(* attributes data-lang, syntax and type, in a PRE or outside one.         *)
(***************************************************************************)
MaxLangTokens == 3

\* longest class list of the CODE element
MaxClasses == 2

LangClasses ==
    {LanguagePrefix \o <<"g", "o">>, <<"J", "S">>, LanguagePrefix, <<"x">>,
     LanguagePrefix \o <<"r", BacktickChar>>}

LangClassLists == UNION {[1..n -> LangClasses] : n \in 0..MaxClasses}

\* the values an attribute of the model may take: Null is an absent
\* attribute, BoolTrue one without a value
LangValues ==
    [a \in {"data-lang", "syntax", "type"} |->
        CASE a = "data-lang" -> {Null, Str(<<" ", "g", "o", " ">>)}
          [] a = "syntax" -> {Str(<<"z", "z">>), Str(<<"c">>)}
          [] a = "type" -> {BoolTrue, Str(<<"c", "s", "s">>)}]

LangAttributes ==
    {f \in [{"data-lang", "syntax", "type"} ->
               UNION {LangValues[a] : a \in {"data-lang", "syntax", "type"}}] :
        \A a \in DOMAIN f : f[a] \in LangValues[a]}

LangCodes ==
    {OpenerWith("CODE", f, cl) : f \in LangAttributes, cl \in LangClassLists}

LangTokens ==
    LangCodes \cup {Opener("PRE"), Closer("PRE"), Closer("CODE"), TextToken(<<"x">>)}

\* one CODE element in a document
LangIteration ==
    \E tok \in LangTokens :
        /\ Len(stream) < MaxLangTokens
        /\ tok.closer => MatchedCloser(tok)
        /\ tok.name = "CODE" /\ ~ tok.closer =>
               \A k \in 1..Len(stream) : stream[k].name # "CODE"
        /\ (CaseText(tok) \/ CaseCode(tok) \/ CaseOther(tok))

NextLang ==
    \/ CreateScanner
    \/ LangIteration
    \/ EndOfStream(FALSE)

SpecLang == InitList /\ [][NextLang]_vars

\* a class name that decides the language: taken in lower case, it starts
\* with language- or is a known language
DecidingClass(cls) ==
    \/ StartsWith(toLowerCase(cls), LanguagePrefix)
    \/ toLowerCase(cls) \in KNOWN_LANGUAGES

\* what the first deciding class name gives, the empty text when no class
\* name decides
ClassChoice(tok) ==
    LET deciding == {k \in 1..Len(tok.classes) : DecidingClass(tok.classes[k])}
    IN IF deciding = {} THEN <<>>
       ELSE LET k == CHOOSE m \in deciding : \A n \in deciding : m <= n
                lower == toLowerCase(tok.classes[k])
            IN IF StartsWith(lower, LanguagePrefix)
               THEN SubSeq(lower, Len(LanguagePrefix) + 1, Len(lower))
               ELSE lower

\* what the first attribute of the list with a known language in its value
\* gives, the empty text when there is none
AttributeChoice(tok) ==
    LET Names(a) == tok.attrs[a].kind = "string" /\ Trim(tok.attrs[a].val) \in KNOWN_LANGUAGES
        naming == {i \in 1..Len(langAttrs) : langAttrs[i] \in DOMAIN tok.attrs /\ Names(langAttrs[i])}
    IN IF naming = {} THEN <<>>
       ELSE Trim(tok.attrs[langAttrs[CHOOSE m \in naming : \A n \in naming : m <= n]].val)

\* the language the fence line is to carry
ExpectedLanguage(tok) ==
    LET fromClass == ClassChoice(tok)
    IN IF fromClass # <<>> /\ fromClass[Len(fromClass)] # BacktickChar
       THEN fromClass
       ELSE AttributeChoice(tok)

\* C29: the fence line a CODE opener under a PRE writes carries the language
\* of the first class name that, in lower case, starts with language- (the
\* rest of the name) or is a known language; when that gives nothing, or a
\* name that ends with a backtick, it carries the trimmed value of the first
\* of data-lang, data-language, data-codetag, syntax,
\* data-programming-language, type that holds a known language; and it
\* carries no language otherwise.
C29_FenceLanguage ==
    [][/\ pc = "loop" /\ pc' = "loop"
       /\ stream'[Len(stream')].name = "CODE"
       /\ ~ stream'[Len(stream')].closer
       /\ Includes(crumbs, "PRE")
       => EndsWith(md', Fence \o ExpectedLanguage(stream'[Len(stream')]) \o <<"\n">>)]_vars

\* the first class name decides and gives nothing, the second is not looked
\* at, data-lang is absent, syntax names no known language, and type decides
C29_Witness ==
    /\ pc = "loop"
    /\ Len(stream) = 2 /\ stream[1] = Opener("PRE") /\ stream[2].name = "CODE"
    /\ stream[2].classes = <<LanguagePrefix, <<"J", "S">>>>
    /\ stream[2].attrs["data-lang"] = Null
    /\ stream[2].attrs["syntax"] = Str(<<"z", "z">>)
    /\ stream[2].attrs["type"] = Str(<<"c", "s", "s">>)
    /\ EndsWith(md, Fence \o <<"c", "s", "s", "\n">>)


\* how many OL and UL stand before place k of the breadcrumbs bc
ListsBefore(bc, k) == Cardinality({j \in 1..(k - 1) : bc[j] \in {"OL", "UL"}})

\* the step flushes: an LI opener, or an OL or UL tag
ListFlush ==
    /\ pc = "loop" /\ pc' = "loop"
    /\ LET tok == stream'[Len(stream')]
       IN tok.name \in {"OL", "UL"} \/ (tok.name = "LI" /\ ~ tok.closer)

\* C30: at every flush of a list document, each LI of the breadcrumbs that
\* has one list or more before it finds, in the list stack as it stands at
\* the flush (before the push of a list opener, before the pop of a list
\* closer), the kind and the counter of its list at listDepth - 1: the kind is
\* "-" or "decimal", so that listMarker never falls through to the empty
\* marker.
C30_ListLookupsInBounds ==
    [][ListFlush =>
          \A k \in 1..Len(crumbs') :
              crumbs'[k] = "LI" /\ ListsBefore(crumbs', k) > 0 =>
                  LET ld == ListsBefore(crumbs', k) - 1
                  IN /\ 2 * ld + 2 <= Len(olCounts)
                     /\ olCounts[2 * ld + 1] \in {"-", "decimal"}
                     /\ olCounts[2 * ld + 2] \in Nat
                     /\ listMarker(olCounts[2 * ld + 1], olCounts[2 * ld + 2]) # <<>>]_vars

\* an unordered list opens in the first item of an ordered list: the flush
\* of the item's text looks the item's list up before the new list is pushed
C30_Witness ==
    /\ pc = "loop"
    /\ Len(stream) = 4
    /\ stream[1] = Opener("OL") /\ stream[2] = Opener("LI")
    /\ stream[3].name = "#text" /\ stream[4] = Opener("UL")
    /\ olCounts = <<"decimal", 1, "-", 0>>
    /\ StartsWith(md, <<"\n", "\n", "1", ".", " ">>)


\* C31: the threshold after the loop is taken on md alone: when the scan ends
\* with the error indicator set and md shorter than the threshold, convert
\* goes to fallback with the document, whatever the line buffer and the link
\* slot hold, and what they hold is never written to md.
C31_PendingTextNotCounted ==
    [][/\ pc = "loop" /\ pc' \in {"fallback", "done"}
       /\ lastError'
       /\ Len(md) < MinOutputLength
       => /\ pc' = "fallback"
          /\ fbInput' = html
          /\ md' = md
          /\ result' = NoResult]_vars

\* the scan has ended with an error, nothing flushed and a line buffer longer
\* than the threshold, and convert is in fallback
C31_Witness ==
    /\ pc = "fallback"
    /\ lastError
    /\ via = <<"parseError">>
    /\ md = <<>>
    /\ Len(line) >= MinOutputLength


(***************************************************************************)
(* The tool fetchAndConvertToMarkdown of index.ts: the handler fetches the *)
(* URL, reads the body, calls convert and resolves to one text.            *)
(***************************************************************************)
\* tokens of the document the tool converts
MaxToolTokens == 2

\* URLs as new URL() serialises them: lower-case host, no default port
ToolUrls ==
    {<<"h", "t", "t", "p", ":", "/", "/", "h", "/", "p">>,
     <<"h", "t", "t", "p", "s", ":", "/", "/", "e", ".", "c", "o", "m">>,
     <<"d", "a", "t", "a", ":", ",", "a">>}

ToolWidths == {5, DefaultWidth}

\* how a fetch that yields no body ends: fetch rejects, the response is not
\* ok, or response.text() rejects
FetchFailures == {"fetchRejected", "notOk", "bodyRejected"}

\* the message of the error the catch block receives
FailureMessage(kind) ==
    CASE kind = "fetchRejected" -> <<"f", "e", "t", "c", "h", " ", "f", "a", "i", "l", "e", "d">>
      [] kind = "notOk" -> <<"F", "a", "i", "l", "e", "d", " ", "t", "o", " ", "f", "e", "t", "c",
                               "h", " ", "U", "R", "L", ":", " ", "4", "0", "4", " ", "N", "o", "t",
                               " ", "F", "o", "u", "n", "d">>
      [] kind = "bodyRejected" -> <<"t", "e", "r", "m", "i", "n", "a", "t", "e", "d">>
      [] kind = "convertThrew" -> <<"u", "n", "r", "e", "a", "c", "h", "a", "b", "l", "e">>

ErrorPrefix ==
    <<"E", "r", "r", "o", "r", " ", "f", "e", "t", "c", "h", "i", "n", "g",
    " ", "o", "r", " ", "c", "o", "n", "v", "e", "r", "t", "i", "n", "g",
    " ", "c", "o", "n", "t", "e", "n", "t", " ", "f", "r", "o", "m", " ">>

\* the text of the catch block's result
ErrorText(url, message) == ErrorPrefix \o url \o <<":", " ">> \o message

\* new URL(url).origin: scheme, "://" and host of an http or https URL, and
\* "null" for any other scheme
Origin(url) ==
    LET http == <<"h", "t", "t", "p", ":", "/", "/">>
        https == <<"h", "t", "t", "p", "s", ":", "/", "/">>
        scheme == IF StartsWith(url, https) THEN https
                  ELSE IF StartsWith(url, http) THEN http ELSE <<>>
        rest == SubSeq(url, Len(scheme) + 1, Len(url))
    IN IF scheme = <<>> THEN <<"n", "u", "l", "l">>
       ELSE scheme \o SubSeq(rest, 1, RunLen(rest, 1, {rest[k] : k \in 1..Len(rest)}
                                                         \ {"/", "?", "#"}))

\* convert has not been called
ConvertUncalled ==
    /\ pc = "uncalled"
    /\ html = <<>>
    /\ baseUrlArg = <<>>
    /\ width = DefaultWidth
    /\ baseUrl = <<>>
    /\ result = NoResult
    /\ crumbs = RootCrumbs
    /\ lastError = FALSE
    /\ stream = <<>>
    /\ fbInput = <<>>
    /\ fbPos = 0
    /\ fbOutput = <<>>
    /\ via = <<>>
    /\ BeforeFirstCall
    /\ calls = <<>>

\* the handler has been called with a URL and a width
InitTool ==
    /\ ConvertUncalled
    /\ \E u \in ToolUrls, w \in ToolWidths :
           tool = [NoTool EXCEPT !.pc = "called", !.url = u, !.width = w]
    /\ ext = NoExt

convertVars ==
    <<pc, html, baseUrlArg, width, baseUrl, md, olCounts, line, lastAttrs,
      linkSwap, emDepth, strongDepth, result, crumbs, lastError, stream,
      fbInput, fbPos, fbOutput, via>>

\* fetch rejects, or the response is not ok, or its body cannot be read: the
\* catch block returns the error text
ToolFetchFails ==
    /\ tool.pc = "called"
    /\ \E kind \in FetchFailures :
           tool' = [tool EXCEPT !.pc = "resolved", !.outcome = kind,
                                !.text = ErrorText(tool.url, FailureMessage(kind))]
    /\ UNCHANGED <<convertVars, calls, ext>>

\* the response is ok and response.text() gives the body
ToolFetched ==
    /\ tool.pc = "called"
    /\ \E h \in HtmlInputs :
           tool' = [tool EXCEPT !.pc = "fetched", !.outcome = "ok", !.body = h]
    /\ UNCHANGED <<convertVars, calls, ext>>

\* HtmlToMarkdown.convert(html, baseUrl, width)
ToolConvert ==
    /\ tool.pc = "fetched"
    /\ tool' = [tool EXCEPT !.pc = "converting", !.converts = @ + 1]
    /\ pc' = "start"
    /\ html' = tool.body
    /\ baseUrlArg' = Origin(tool.url)
    /\ baseUrl' = Origin(tool.url)
    /\ width' = tool.width
    /\ result' = NoResult
    /\ via' = <<>>
    /\ UNCHANGED <<md, olCounts, line, lastAttrs, linkSwap, emDepth, strongDepth,
                   crumbs, lastError, stream, fallbackVars, calls, ext>>

\* convert has returned: the handler returns its result as the text
ToolReturn ==
    /\ tool.pc = "converting"
    /\ pc = "done"
    /\ tool' = [tool EXCEPT !.pc = "resolved", !.text = result]
    /\ UNCHANGED <<convertVars, calls, ext>>

\* convert has thrown: the catch block returns the error text
ToolCatch ==
    /\ tool.pc = "converting"
    /\ pc = "thrown"
    /\ tool' = [tool EXCEPT !.pc = "resolved",
                            !.text = ErrorText(tool.url, FailureMessage("convertThrew"))]
    /\ UNCHANGED <<convertVars, calls, ext>>

ToolTokens == {TextToken(<<"L">>), Opener("B"), Opener("P"), Closer("P")}

ToolIteration ==
    \E tok \in ToolTokens :
        /\ Len(stream) < MaxToolTokens
        /\ tok.closer => MatchedCloser(tok)
        /\ (CaseText(tok) \/ CaseStrong(tok) \/ CaseBlock(tok))

NextTool ==
    \/ ToolFetchFails
    \/ ToolFetched
    \/ ToolConvert
    \/ CreateScanner
    \/ NoScanner
    \/ ConstructionFault
    \/ ToolIteration
    \/ TokenFault
    \/ \E err \in BOOLEAN : EndOfStream(err)
    \/ Fallback
    \/ ToolReturn
    \/ ToolCatch

SpecTool == InitTool /\ [][NextTool]_vars

\* whether text t holds the text u
Contains(t, u) == \E i \in 1..(Len(t) - Len(u) + 1) : SubSeq(t, i, i + Len(u) - 1) = u

\* C32: the handler never rejects and resolves to one text: when the fetch
\* fails or the response is not ok, convert has not been called and the text
\* is an error message that names the URL; otherwise convert has been called
\* exactly once, with the body, the origin of the URL and the width, and the
\* text is what convert returned.
C32_ToolResolves ==
    /\ tool.pc \in {"called", "fetched", "converting", "resolved"}
    /\ tool.pc = "resolved" =>
          IF tool.outcome \in FetchFailures
          THEN /\ tool.converts = 0
               /\ pc = "uncalled"
               /\ StartsWith(tool.text, ErrorPrefix)
               /\ Contains(tool.text, tool.url)
          ELSE /\ tool.converts = 1
               /\ html = tool.body
               /\ baseUrlArg = Origin(tool.url)
               /\ width = tool.width
               /\ pc = "done"
               /\ tool.text = result


(***************************************************************************)
(* The browser extension's processHTML: it creates a processor, counts the *)
(* tokens by type in a try block whose finally frees the processor, and    *)
(* posts the counts to the page.                                           *)
(***************************************************************************)
\* tokens of the page processHTML scans
MaxExtTokens == 4

\* processHTML(html, tabId) has been called
InitExt ==
    /\ ConvertUncalled
    /\ tool = NoTool
    /\ ext = [NoExt EXCEPT !.pc = "called"]

\* create_full_parser(html) returns a processor, or none
ExtCreate ==
    /\ ext.pc = "called"
    /\ \E p \in {"live", "null"} : ext' = [ext EXCEPT !.pc = "try", !.processor = p]
    /\ UNCHANGED <<convertVars, calls, tool>>

\* create_full_parser(html) throws, before the try block
ExtConstructionFault ==
    /\ ext.pc = "called"
    /\ ext' = [ext EXCEPT !.pc = "thrown"]
    /\ UNCHANGED <<convertVars, calls, tool>>

\* if (!processor): log and return, which runs the finally block first
ExtNoProcessor ==
    /\ ext.pc = "try"
    /\ ext.processor = "null"
    /\ ext' = [ext EXCEPT !.pc = "finally", !.exit = "return", !.logged = TRUE]
    /\ UNCHANGED <<convertVars, calls, tool>>

\* one iteration of the loop: a token whose type is counted, or one for
\* which get_token_type() gives nothing
ExtToken ==
    /\ ext.pc = "try"
    /\ ext.processor = "live"
    /\ ext.scanned < MaxExtTokens
    /\ \/ \E t \in TokenTypes :
              ext' = [ext EXCEPT !.tokenCounts[t] = @ + 1, !.totalTokens = @ + 1,
                                 !.scanned = @ + 1]
       \/ ext' = [ext EXCEPT !.scanned = @ + 1]
    /\ UNCHANGED <<convertVars, calls, tool>>

\* next_token() returns false: the try block completes
ExtLoopEnd ==
    /\ ext.pc = "try"
    /\ ext.processor = "live"
    /\ ext' = [ext EXCEPT !.pc = "finally", !.exit = "normal"]
    /\ UNCHANGED <<convertVars, calls, tool>>

\* next_token() or get_token_type() throws
ExtLoopFault ==
    /\ ext.pc = "try"
    /\ ext.processor = "live"
    /\ ext' = [ext EXCEPT !.pc = "finally", !.exit = "throw"]
    /\ UNCHANGED <<convertVars, calls, tool>>

\* finally: processor.free().  Without a processor the call is a TypeError,
\* which takes the place of the pending return.
ExtFinally ==
    /\ ext.pc = "finally"
    /\ ext' = IF ext.processor = "null"
              THEN [ext EXCEPT !.pc = "thrown"]
              ELSE [ext EXCEPT !.freed = @ + 1,
                               !.pc = IF ext.exit = "normal" THEN "format"
                                      ELSE "thrown"]
    /\ UNCHANGED <<convertVars, calls, tool>>

\* the counts are formatted and posted to the page
ExtPost ==
    /\ ext.pc = "format"
    /\ ext' = [ext EXCEPT !.pc = "returned", !.posted = TRUE]
    /\ UNCHANGED <<convertVars, calls, tool>>

NextExt ==
    \/ ExtCreate
    \/ ExtConstructionFault
    \/ ExtNoProcessor
    \/ ExtToken
    \/ ExtLoopEnd
    \/ ExtLoopFault
    \/ ExtFinally
    \/ ExtPost

SpecExt == InitExt /\ [][NextExt]_vars

\* C33: when create_full_parser gives no processor, processHTML logs the
\* failure and returns: it does not throw and posts nothing; a processor that
\* was created is freed exactly once when processHTML is left, by return or
\* by the exception of a faulting loop, and never before the loop has ended.
C33_ProcessorFreedOnce ==
    /\ ext.processor = "null" /\ ext.pc \notin {"try", "finally"} =>
           ext.logged /\ ext.pc = "returned" /\ ~ ext.posted /\ ext.freed = 0
    /\ ext.processor = "live" =>
           /\ ext.pc \in {"returned", "thrown", "format"} => ext.freed = 1
           /\ ext.pc \in {"try", "finally"} => ext.freed = 0

=============================================================================
